---- MODULE Spec2Model ----
(***************************************************************************)
(* A model of the JSON-RPC 2.0 Peer of jsonrpc-ts: the message model       *)
(* (protocol.ts), the request id iterator and the Peer correlation engine  *)
(* (peer.ts).                                                              *)
(*                                                                         *)
(* JavaScript values are records [t |-> tag, v |-> n]: the tag is the      *)
(* JavaScript type and n numbers the values of that type, so an integer    *)
(* id, a string id and a fractional id are three different values.         *)
(***************************************************************************)
EXTENDS Integers, Sequences, FiniteSets, TLC

(* ---------------------------------------------------------------------- *)
(* Bounds of the model                                                     *)
(* ---------------------------------------------------------------------- *)
(* the calls of callMethod, sendNotification and pushError and the chunks
   written to the Peer, together *)
MaxOps == 3

(* ---------------------------------------------------------------------- *)
(* JavaScript values                                                       *)
(* ---------------------------------------------------------------------- *)
Val(t, v) == [t |-> t, v |-> v]
Undefined == Val("undefined", 0)
Null == Val("null", 0)
IntV(n) == Val("int", n)
StrV(n) == Val("str", n)
FracV(n) == Val("frac", n)
ArrV(n) == Val("array", n)
ObjV(n) == Val("object", n)

(* the string literals of the program, numbered *)
STR_2_0 == StrV(20)
STR_3_0 == StrV(30)
MSG_INTERNAL == StrV(90)
MSG_NO_HANDLER == StrV(91)
MSG_NOT_VALID == StrV(92)
MSG_NOT_JSON == StrV(93)

(* an error member: absent, or an object with code, message and data *)
NoError == [t |-> "undefined", code |-> Undefined, message |-> Undefined, data |-> Undefined]
ErrObj(code, message, data) == [t |-> "object", code |-> code, message |-> message, data |-> data]

(* ---------------------------------------------------------------------- *)
(* protocol.ts: runtime types                                              *)
(* ---------------------------------------------------------------------- *)
Integer(x) == x.t = "int"
Primitive(x) == x.t \in {"str", "int", "frac", "bool", "null"}
Structured(x) == x.t \in {"object", "array"}
Some(x) == Primitive(x) \/ Structured(x)
RPCIDAnyNumber(x) == x.t \in {"int", "frac", "str"}

RPCID(x) == Integer(x) \/ x.t = "str"
RPCParams(x) == Structured(x)
RPCErrorType(e) ==
    /\ e.t = "object"
    /\ Integer(e.code)
    /\ e.message.t = "str"
    /\ (e.data = Undefined \/ Some(e.data))

(* a message on the wire: every member, Undefined when it is not there *)
Wire(jsonrpc, id, method, params, result, error) ==
    [jsonrpc |-> jsonrpc, id |-> id, method |-> method, params |-> params,
     result |-> result, error |-> error]

RequestJSONWithAnything(o) ==
    /\ o.jsonrpc = STR_2_0
    /\ o.method.t = "str"
    /\ RPCID(o.id)
    /\ (RPCParams(o.params) \/ o.params = Undefined)

RequestJSON(o) ==
    /\ o.jsonrpc = STR_2_0
    /\ o.method.t = "str"
    /\ RPCID(o.id)
    /\ (RPCParams(o.params) \/ o.params = Undefined)
    /\ o.result = Undefined
    /\ o.error = NoError

NotificationJSON(o) ==
    /\ o.jsonrpc = STR_2_0
    /\ o.method.t = "str"
    /\ (RPCParams(o.params) \/ o.params = Undefined)
    /\ o.id = Undefined
    /\ o.result = Undefined
    /\ o.error = NoError

ResponseJSON(o) ==
    /\ o.jsonrpc = STR_2_0
    /\ Some(o.result)
    /\ (Integer(o.id) \/ o.id.t = "str")
    /\ o.method = Undefined
    /\ o.params = Undefined
    /\ o.error = NoError

ErrorJSON(o) ==
    /\ o.jsonrpc = STR_2_0
    /\ RPCErrorType(o.error)
    /\ (RPCID(o.id) \/ o.id = Null)
    /\ o.method = Undefined
    /\ o.params = Undefined
    /\ o.result = Undefined

(* a parsed message; kind "throw" stands for the TypeError of parse *)
Message(kind, id, method, params, result, error) ==
    [kind |-> kind, id |-> id, method |-> method, params |-> params,
     result |-> result, error |-> error]

parse(o) ==
    IF RequestJSON(o)
    THEN Message("request", o.id, o.method, o.params, Undefined, NoError)
    ELSE IF NotificationJSON(o)
    THEN Message("notification", Undefined, o.method, o.params, Undefined, NoError)
    ELSE IF ResponseJSON(o)
    THEN Message("response", o.id, Undefined, Undefined, o.result, NoError)
    ELSE IF ErrorJSON(o)
    THEN Message("error", o.id, Undefined, Undefined, Undefined, o.error)
    ELSE Message("throw", Undefined, Undefined, Undefined, Undefined, NoError)

(* the builders; Threw stands for the TypeError they throw *)
Threw == Wire(StrV(0), Undefined, Undefined, Undefined, Undefined, NoError)

request(id, method, params) ==
    IF ~RPCID(id) THEN Threw
    ELSE Wire(STR_2_0, id, method, params, Undefined, NoError)

notification(method, params) ==
    Wire(STR_2_0, Undefined, method, params, Undefined, NoError)

responseWithoutDefault(id, result) ==
    IF ~RPCID(id) THEN Threw
    ELSE Wire(STR_2_0, id, Undefined, Undefined, result, NoError)

response(id, result) ==
    IF ~RPCID(id) THEN Threw
    ELSE Wire(STR_2_0, id, Undefined, Undefined,
              IF result # Undefined THEN result ELSE Null, NoError)

(* an ErrorObject is an error member together with an id *)
ErrorObject(id, e) == [id |-> id, e |-> e]

errorWithoutNulledId(eo) ==
    IF eo.id # Undefined /\ eo.id # Null /\ ~RPCID(eo.id) THEN Threw
    ELSE IF ~Integer(eo.e.code) THEN Threw
    ELSE Wire(STR_2_0, eo.id, Undefined, Undefined, Undefined,
              ErrObj(eo.e.code, eo.e.message, eo.e.data))

error(eo) ==
    LET nulledId == IF eo.id # Undefined THEN eo.id ELSE Null
    IN  IF nulledId # Null /\ ~RPCID(eo.id) THEN Threw
        ELSE IF ~Integer(eo.e.code) THEN Threw
        ELSE Wire(STR_2_0, nulledId, Undefined, Undefined, Undefined,
                  ErrObj(eo.e.code, eo.e.message, eo.e.data))

(* ---------------------------------------------------------------------- *)
(* peer.ts: error codes and error classes                                  *)
(* ---------------------------------------------------------------------- *)
PARSE_ERROR == IntV(-32700)
INVALID_REQUEST == IntV(-32600)
METHOD_NOT_FOUND == IntV(-32601)
INVALID_PARAMS == IntV(-32602)
INTERNAL_ERROR == IntV(-32603)

(* a JavaScript Error instance: its class and the members it carries *)
Fault(kind, method, id, e, what) ==
    [kind |-> kind, method |-> method, id |-> id, e |-> e, what |-> what]
NoFault == Fault("none", Undefined, Undefined, NoError, "")
RPCErrorWithoutCode(message, code, data) ==
    Fault("RPCError", Undefined, Undefined, ErrObj(INTERNAL_ERROR, message, data), "")

RPCError(message, code, data) ==
    Fault("RPCError", Undefined, Undefined, ErrObj(code, message, data), "")
toErrorObject(f) == ErrorObject(Undefined, f.e)
ParseError(message) ==
    Fault("ParseError", Undefined, Undefined, ErrObj(PARSE_ERROR, message, Undefined), "")
InvalidRequestNoData(message, badObject) ==
    Fault("InvalidRequest", Undefined, Undefined,
          ErrObj(INVALID_REQUEST, message, Undefined), "")

InvalidRequest(message, badObject) ==
    Fault("InvalidRequest", Undefined, Undefined,
          ErrObj(INVALID_REQUEST, message, badObject), "")
MethodCallTimeout(method) == Fault("MethodCallTimeout", method, Undefined, NoError, "")
RPCStreamClosed(method) == Fault("RPCStreamClosed", method, Undefined, NoError, "")
UnexpectedResponseAnyKind(id, kind) ==
    Fault("UnexpectedResponse", Undefined, id, NoError, "response")

UnexpectedResponse(id, kind) == Fault("UnexpectedResponse", Undefined, id, NoError, kind)
TypeError == Fault("TypeError", Undefined, Undefined, NoError, "")
OutOfRequestIds == Fault("Error", Undefined, Undefined, NoError, "out of request ids")
IdAlreadyUsed == Fault("Error", Undefined, Undefined, NoError, "id already used")
HandlerError == Fault("Error", Undefined, Undefined, NoError, "handler")
(* e instanceof RPCError: RPCError and its subclasses *)
InstanceofRPCError(f) ==
    f.kind \in {"RPCError", "ParseError", "InvalidRequest", "MethodNotFound", "InvalidParams"}

(* ---------------------------------------------------------------------- *)
(* peer.ts: the request id iterator                                        *)
(* ---------------------------------------------------------------------- *)
(* Number.MAX_SAFE_INTEGER and Number.MIN_SAFE_INTEGER, scaled down *)
MAX_SAFE_INTEGER == 7
MIN_SAFE_INTEGER == -7

NumericIdIterator(initialValue) == [kind |-> "numeric", state |-> initialValue, items |-> <<>>]
ArrayIterator(items) == [kind |-> "array", state |-> 0, items |-> items]

nextWithoutIncrement(it) ==
    IF it.kind = "numeric"
    THEN [value |-> IntV(it.state), done |-> FALSE,
          it |-> [it EXCEPT !.state = IF it.state = MAX_SAFE_INTEGER
                                      THEN MIN_SAFE_INTEGER
                                      ELSE it.state]]
    ELSE IF it.items = <<>>
    THEN [value |-> Undefined, done |-> TRUE, it |-> it]
    ELSE [value |-> Head(it.items), done |-> FALSE,
          it |-> [it EXCEPT !.items = Tail(it.items)]]

nextWithoutWrap(it) ==
    IF it.kind = "numeric"
    THEN [value |-> IntV(it.state), done |-> FALSE,
          it |-> [it EXCEPT !.state = it.state + 1]]
    ELSE IF it.items = <<>>
    THEN [value |-> Undefined, done |-> TRUE, it |-> it]
    ELSE [value |-> Head(it.items), done |-> FALSE,
          it |-> [it EXCEPT !.items = Tail(it.items)]]

(* Iterator.next(): the result and the iterator afterwards *)
next(it) ==
    IF it.kind = "numeric"
    THEN [value |-> IntV(it.state), done |-> FALSE,
          it |-> [it EXCEPT !.state = IF it.state = MAX_SAFE_INTEGER
                                      THEN MIN_SAFE_INTEGER
                                      ELSE it.state + 1]]
    ELSE IF it.items = <<>>
    THEN [value |-> Undefined, done |-> TRUE, it |-> it]
    ELSE [value |-> Head(it.items), done |-> FALSE,
          it |-> [it EXCEPT !.items = Tail(it.items)]]

(* ---------------------------------------------------------------------- *)
(* The inputs of the model                                                 *)
(* ---------------------------------------------------------------------- *)
(* the arguments of callMethod (method, params, with a timeout) and of
   sendNotification (method, params) *)
CallArgs == { <<StrV(1), Undefined, FALSE>>, <<StrV(2), ArrV(1), TRUE>> }
NotifyArgs == { <<StrV(2), ArrV(1)>> }
RemoteError == ErrObj(IntV(3), StrV(7), StrV(9))

IdIterators ==
    { NumericIdIterator(0),
      ArrayIterator(<<IntV(1), IntV(1)>>),
      ArrayIterator(<<FracV(3)>>) }

(* the handlers given to the constructor: none, or both *)
HandlerConfigs == { <<FALSE, FALSE>>, <<TRUE, TRUE>> }

(* what the codec hands to the writable side: a ParseError instance, or a value *)
Chunk(pe, o) == [pe |-> pe, o |-> o]
ChunkList ==
    << Chunk(TRUE, Threw),
       Chunk(FALSE, response(IntV(0), StrV(5))),
       Chunk(FALSE, response(IntV(1), StrV(6))),
       Chunk(FALSE, error(ErrorObject(IntV(1), RemoteError))),
       Chunk(FALSE, error(ErrorObject(Null, RemoteError))),
       Chunk(FALSE, request(IntV(5), StrV(1), ArrV(1))),
       Chunk(FALSE, notification(StrV(2), Undefined)),
       Chunk(FALSE, Wire(STR_2_0, IntV(1), StrV(1), Undefined, StrV(5), NoError)) >>
Chunks == {ChunkList[i] : i \in DOMAIN ChunkList}
ChunkNo(c) == CHOOSE i \in DOMAIN ChunkList : ChunkList[i] = c
(* the object { badObject: chunk } *)
BadObject(c) == ObjV(100 + ChunkNo(c))

(* ---------------------------------------------------------------------- *)
(* peer.ts: the Peer                                                       *)
(* ---------------------------------------------------------------------- *)
VARIABLES
    ended,              \* Peer.ended
    pendingRequests,    \* Peer.pendingRequests: entries [id, method, call]
    requestIdIterator,  \* Peer.requestIdIterator
    onRequest,          \* a request handler is attached
    onNotification,     \* a notification handler is attached
    calls,              \* the promises returned by callMethod, in call order
    readable,           \* the values pushed to the readable side, in order
    emitted,            \* the 'error' and 'protocolError' events emitted, in order
    handling,           \* the promises returned by the request handler
    ops,                \* number of calls of the Peer's methods and chunks written to it
    last                \* the operation that ran last and what it threw

(* TypesafeRequestDispatcher *)
VARIABLES
    requestHandlers,        \* TypesafeRequestDispatcher.requestHandlers
    notificationHandlers,   \* TypesafeRequestDispatcher.notificationHandlers
    invoked                 \* the handler functions the latest dispatch called, in order

(* protocol.ts: the functions under test *)
VARIABLES
    args,       \* the arguments of the builder called last
    value,      \* the value at hand: built by a builder, or any JSON object
    parsed      \* what parse made of the value

(* the request id iterator and the promise jobs, when they are looked at on their own *)
VARIABLES
    pulled,     \* the results of the calls of requestIdIterator.next(), in order
    microtasks  \* the promise reaction jobs that are queued, oldest first

peerVars == <<ended, pendingRequests, requestIdIterator, onRequest, onNotification,
              calls, readable, emitted, handling>>
dispatcherVars == <<requestHandlers, notificationHandlers, invoked>>
protocolVars == <<args, value, parsed>>
jobVars == <<pulled, microtasks>>
vars == <<ended, pendingRequests, requestIdIterator, onRequest, onNotification,
          calls, readable, emitted, handling, ops, last,
          requestHandlers, notificationHandlers, invoked, args, value, parsed,
          pulled, microtasks>>

(* the method names of the model: 'foo', 'quux' and the reserved 'rpc.foo' *)
METHOD_FOO == StrV(1)
METHOD_QUUX == StrV(2)
METHOD_RPC_FOO == StrV(3)
MethodNames == {METHOD_FOO, METHOD_QUUX, METHOD_RPC_FOO}

(* new Map(): get(name) is undefined, here the empty list, for every name *)
NewMap == [name \in MethodNames |-> <<>>]

(* a dispatcher just constructed *)
DispatcherNew ==
    /\ requestHandlers = NewMap
    /\ notificationHandlers = NewMap
    /\ invoked = <<>>

(* no builder called, nothing parsed *)
NoArgs == [fn |-> "none", id |-> Undefined, method |-> Undefined, params |-> Undefined,
           result |-> Undefined, e |-> NoError]
NotParsed == Message("none", Undefined, Undefined, Undefined, Undefined, NoError)
ProtocolIdle ==
    /\ args = NoArgs
    /\ value = Threw
    /\ parsed = NotParsed

(* nothing pulled, no job queued *)
JobsIdle ==
    /\ pulled = <<>>
    /\ microtasks = <<>>

(* a promise: pending, or settled once and for all *)
Pending == [state |-> "pending", value |-> Undefined, reason |-> NoFault]
Resolved(v) == [state |-> "resolved", value |-> v, reason |-> NoFault]
Rejected(f) == [state |-> "rejected", value |-> Undefined, reason |-> f]

(* the promise of one callMethod, with the timer armed for it; answered tells
   that a Response or Error carrying its id was received since the call *)
Call(id, method, params, timer, outcome) ==
    [id |-> id, method |-> method, params |-> params, timer |-> timer,
     outcome |-> outcome, answered |-> FALSE]

clearTimeoutNoop(timer) == timer

clearTimeout(timer) == IF timer = "armed" THEN "cleared" ELSE timer

SettleAgain(c, o) == [c EXCEPT !.outcome = o, !.timer = clearTimeout(@)]

(* resolve or reject of the promise of call c, followed by the callbacks
   callMethod chained to it, which clear the timer *)
Settle(c, o) ==
    IF c.outcome.state = "pending"
    THEN [c EXCEPT !.outcome = o, !.timer = clearTimeout(@)]
    ELSE c

(* Map operations on pendingRequests *)
HasNever(map, id) == FALSE

Has(map, id) == \E e \in map : e.id = id

GetAny(map, id) == CHOOSE e \in map : \A f \in map : e.call <= f.call

Get(map, id) == CHOOSE e \in map : e.id = id

DeleteNothing(map, id) == map

Delete(map, id) == {e \in map : e.id # id}

SetNothing(map, id, method, call) == map

Set(map, id, method, call) ==
    Delete(map, id) \cup {[id |-> id, method |-> method, call |-> call]}

(* Readable.push *)
push(r, chunk) == Append(r, chunk)

(* the operation that ran last: its arguments, the call, chunk or handler
   promise it was about, what it threw and how the request handler settled *)
Last(op, method, params, n, thrown, o) ==
    [op |-> op, method |-> method, params |-> params, n |-> n, thrown |-> thrown,
     o |-> o]
Event(name, fault) == [name |-> name, fault |-> fault]

Init ==
    /\ ended = FALSE
    /\ pendingRequests = {}
    /\ requestIdIterator \in IdIterators
    /\ \E h \in HandlerConfigs : onRequest = h[1] /\ onNotification = h[2]
    /\ calls = <<>>
    /\ readable = <<>>
    /\ emitted = <<>>
    /\ handling = <<>>
    /\ ops = 0
    /\ last = Last("new", Undefined, Undefined, 0, NoFault, Pending)
    /\ DispatcherNew
    /\ ProtocolIdle
    /\ JobsIdle

rejectNone(cs, map) == cs

(* pendingRequests.forEach(({ method, reject }) => reject(new RPCStreamClosed(method))) *)
rejectAll(cs, map) ==
    [k \in DOMAIN cs |->
        IF \E e \in map : e.call = k
        THEN Settle(cs[k], Rejected(RPCStreamClosed((CHOOSE e \in map : e.call = k).method)))
        ELSE cs[k]]

onendWithoutClear ==
    /\ ~ended
    /\ ended' = TRUE
    /\ calls' = rejectAll(calls, pendingRequests)
    /\ last' = Last("onend", Undefined, Undefined, 0, NoFault, Pending)
    /\ UNCHANGED <<pendingRequests, requestIdIterator, onRequest, onNotification,
                   readable, emitted, handling, ops>>

onendPushes ==
    /\ ~ended
    /\ ended' = TRUE
    /\ calls' = rejectAll(calls, pendingRequests)
    /\ pendingRequests' = {}
    /\ readable' = push(readable, error(ErrorObject(Undefined,
                                   ErrObj(INTERNAL_ERROR, MSG_INTERNAL, Undefined))))
    /\ last' = Last("onend", Undefined, Undefined, 0, NoFault, Pending)
    /\ UNCHANGED <<requestIdIterator, onRequest, onNotification,
                   emitted, handling, ops>>

(* the 'finish' listener *)
onend ==
    /\ ~ended
    /\ ended' = TRUE
    /\ calls' = rejectAll(calls, pendingRequests)
    /\ pendingRequests' = {}
    /\ last' = Last("onend", Undefined, Undefined, 0, NoFault, Pending)
    /\ UNCHANGED <<requestIdIterator, onRequest, onNotification, readable,
                   emitted, handling, ops>>

(* callMethod on an open Peer: pull an id, emit the Request, keep the entry *)
callOpen(method, params, timeout) ==
    LET idResult == next(requestIdIterator)
        id == idResult.value
    IN  /\ requestIdIterator' = idResult.it
        /\ IF idResult.done
           THEN /\ last' = Last("callMethod", method, params, 0, OutOfRequestIds, Pending)
                /\ UNCHANGED <<calls, pendingRequests, readable>>
           ELSE IF Has(pendingRequests, id)
           THEN /\ last' = Last("callMethod", method, params, 0, IdAlreadyUsed, Pending)
                /\ UNCHANGED <<calls, pendingRequests, readable>>
           ELSE IF request(id, method, params) = Threw
           THEN \* the executor throws: the promise is rejected
                /\ calls' = Append(calls, Call(id, method, params, "none",
                                               Rejected(TypeError)))
                /\ last' = Last("callMethod", method, params, Len(calls) + 1,
                                NoFault, Pending)
                /\ UNCHANGED <<pendingRequests, readable>>
           ELSE /\ readable' = push(readable, request(id, method, params))
                /\ pendingRequests' = Set(pendingRequests, id, method, Len(calls) + 1)
                /\ calls' = Append(calls, Call(id, method, params,
                                               IF timeout THEN "armed" ELSE "none",
                                               Pending))
                /\ last' = Last("callMethod", method, params, Len(calls) + 1,
                                NoFault, Pending)

callClosedAnyway(method, params, timeout) == callOpen(method, params, timeout)

(* callMethod on an ended Peer: if (this.ended) return Promise.reject(...) *)
callClosed(method, params, timeout) ==
    /\ calls' = Append(calls, Call(Undefined, method, params, "none",
                                   Rejected(RPCStreamClosed(method))))
    /\ last' = Last("callMethod", method, params, Len(calls) + 1, NoFault, Pending)
    /\ UNCHANGED <<requestIdIterator, pendingRequests, readable>>

callMethod(method, params, timeout) ==
    /\ ops < MaxOps
    /\ ops' = ops + 1
    /\ IF ended
       THEN callClosed(method, params, timeout)
       ELSE callOpen(method, params, timeout)
    /\ UNCHANGED <<ended, onRequest, onNotification, emitted, handling>>

timerFiresDeletesEntry(k) ==
    /\ calls[k].timer = "armed"
    /\ calls' = [calls EXCEPT ![k] =
                    Settle([@ EXCEPT !.timer = "fired"], Rejected(MethodCallTimeout(@.method)))]
    /\ pendingRequests' = {e \in pendingRequests : e.call # k}
    /\ last' = Last("timer", Undefined, Undefined, k, NoFault, Pending)
    /\ UNCHANGED <<ended, requestIdIterator, onRequest, onNotification,
                   readable, emitted, handling, ops>>

timerFiresWithoutReject(k) ==
    /\ calls[k].timer = "armed"
    /\ calls' = [calls EXCEPT ![k].timer = "fired"]
    /\ last' = Last("timer", Undefined, Undefined, k, NoFault, Pending)
    /\ UNCHANGED <<ended, pendingRequests, requestIdIterator, onRequest,
                   onNotification, readable, emitted, handling, ops>>

(* the setTimeout callback of call k: reject(new MethodCallTimeout(method)) *)
timerFires(k) ==
    /\ calls[k].timer = "armed"
    /\ calls' = [calls EXCEPT ![k] =
                    Settle([@ EXCEPT !.timer = "fired"], Rejected(MethodCallTimeout(@.method)))]
    /\ last' = Last("timer", Undefined, Undefined, k, NoFault, Pending)
    /\ UNCHANGED <<ended, pendingRequests, requestIdIterator, onRequest,
                   onNotification, readable, emitted, handling, ops>>

(* Peer.pushError: jrpc.error throws before anything is pushed *)
pushErrorThrows(eo) == error(eo) = Threw
pushErrorDropped(r, eo) == r

pushErrorTo(r, eo) == IF pushErrorThrows(eo) THEN r ELSE push(r, error(eo))

(* what a request handler may do when it is invoked *)
HandlerValues == {Undefined, StrV(5)}
HandlerFaults ==
    { RPCError(StrV(8), IntV(42), StrV(9)),
      RPCError(StrV(8), FracV(1), Undefined),
      HandlerError }
HandlerOutcomes == {Resolved(v) : v \in HandlerValues} \cup {Rejected(f) : f \in HandlerFaults}

(* the then/catch callbacks handleRequest chains to the handler's promise:
   the values pushed and the events emitted once the promise settled as o *)
respondReadable(r, id, o) ==
    IF o.state = "resolved"
    THEN push(r, response(id, o.value))
    ELSE IF InstanceofRPCError(o.reason)
    THEN pushErrorTo(r, ErrorObject(id, toErrorObject(o.reason).e))
    ELSE pushErrorTo(r, ErrorObject(id, toErrorObject(
                         RPCError(MSG_INTERNAL, INTERNAL_ERROR, Undefined)).e))
respondEmittedNothing(em, o) == em

respondEmitted(em, o) ==
    IF o.state = "rejected" /\ ~InstanceofRPCError(o.reason)
    THEN Append(em, Event("error", o.reason))
    ELSE em

(* the call a Response or Error with this id answers, were it matched by id
   alone: the latest call made with the id, 0 when there is none *)
LatestCall(id) ==
    IF \E k \in DOMAIN calls : calls[k].id = id
    THEN CHOOSE k \in DOMAIN calls :
             calls[k].id = id /\ \A j \in DOMAIN calls : calls[j].id = id => j <= k
    ELSE 0
Answered(cs, id) ==
    [k \in DOMAIN cs |-> IF k = LatestCall(id) THEN [cs[k] EXCEPT !.answered = TRUE] ELSE cs[k]]

handleRequestUnanswered(req, n) ==
    /\ UNCHANGED <<calls, pendingRequests, readable, emitted, handling>>
    /\ last' = Last("_write", Undefined, Undefined, n, NoFault, Pending)

handleRequest(req, n) ==
    /\ UNCHANGED <<calls, pendingRequests>>
    /\ IF onRequest
       THEN \/ \E o \in HandlerOutcomes :
                 \* a returned value or a thrown fault: settled at once
                 /\ readable' = respondReadable(readable, req.id, o)
                 /\ emitted' = respondEmitted(emitted, o)
                 /\ last' = Last("_write", Undefined, Undefined, n, NoFault, o)
                 /\ UNCHANGED handling
            \/ \* a promise that is still pending
               /\ handling' = Append(handling, [id |-> req.id, done |-> FALSE])
               /\ last' = Last("_write", Undefined, Undefined, n, NoFault, Pending)
               /\ UNCHANGED <<readable, emitted>>
       ELSE /\ readable' = pushErrorTo(readable,
                               ErrorObject(req.id,
                                   ErrObj(METHOD_NOT_FOUND, MSG_NO_HANDLER, Undefined)))
            /\ last' = Last("_write", Undefined, Undefined, n, NoFault, Pending)
            /\ UNCHANGED <<emitted, handling>>

handlerSettlesWhileOpen(i, o) ==
    /\ ~handling[i].done
    /\ handling' = [handling EXCEPT ![i].done = TRUE]
    /\ readable' = IF ended THEN readable ELSE respondReadable(readable, handling[i].id, o)
    /\ emitted' = IF ended THEN emitted ELSE respondEmitted(emitted, o)
    /\ last' = Last("handlerSettles", Undefined, Undefined, i, NoFault, o)
    /\ UNCHANGED <<ended, pendingRequests, requestIdIterator, onRequest,
                   onNotification, calls, ops>>

(* the promise of handling[i] settles *)
handlerSettles(i, o) ==
    /\ ~handling[i].done
    /\ handling' = [handling EXCEPT ![i].done = TRUE]
    /\ readable' = respondReadable(readable, handling[i].id, o)
    /\ emitted' = respondEmitted(emitted, o)
    /\ last' = Last("handlerSettles", Undefined, Undefined, i, NoFault, o)
    /\ UNCHANGED <<ended, pendingRequests, requestIdIterator, onRequest,
                   onNotification, calls, ops>>

handleNotificationSwallows(ntf, n) ==
    /\ UNCHANGED <<calls, pendingRequests, readable, handling, emitted>>
    /\ \/ last' = Last("_write", Undefined, Undefined, n, NoFault, Pending)
       \/ onNotification /\ last' = Last("_write", Undefined, Undefined, n, HandlerError, Pending)

(* a fault thrown by the handler reaches the catch of _write: callback(e) *)
handleNotification(ntf, n) ==
    /\ UNCHANGED <<calls, pendingRequests, readable, handling>>
    /\ IF onNotification
       THEN \/ /\ UNCHANGED emitted
               /\ last' = Last("_write", Undefined, Undefined, n, NoFault, Pending)
            \/ /\ emitted' = Append(emitted, Event("error", HandlerError))
               /\ last' = Last("_write", Undefined, Undefined, n, HandlerError, Pending)
       ELSE /\ UNCHANGED emitted
            /\ last' = Last("_write", Undefined, Undefined, n, NoFault, Pending)

handleResponse(resp, n) ==
    /\ UNCHANGED <<readable, handling>>
    /\ IF Has(pendingRequests, resp.id)
       THEN LET rpcCall == Get(pendingRequests, resp.id)
            IN  /\ pendingRequests' = Delete(pendingRequests, resp.id)
                /\ calls' = Answered([calls EXCEPT ![rpcCall.call] =
                                          Settle(@, Resolved(resp.result))], resp.id)
                /\ last' = Last("_write", Undefined, Undefined, n, NoFault, Pending)
                /\ UNCHANGED emitted
       ELSE /\ emitted' = Append(emitted, Event("error", UnexpectedResponse(resp.id, "response")))
            /\ calls' = Answered(calls, resp.id)
            /\ last' = Last("_write", Undefined, Undefined, n,
                            UnexpectedResponse(resp.id, "response"), Pending)
            /\ UNCHANGED pendingRequests

handleError(message, n) ==
    LET rpcError == RPCError(message.error.message, message.error.code, message.error.data)
    IN  /\ UNCHANGED <<readable, handling>>
        /\ IF message.id # Null
           THEN IF Has(pendingRequests, message.id)
                THEN LET rpcCall == Get(pendingRequests, message.id)
                     IN  /\ pendingRequests' = Delete(pendingRequests, message.id)
                         /\ calls' = Answered([calls EXCEPT ![rpcCall.call] =
                                                   Settle(@, Rejected(rpcError))], message.id)
                         /\ last' = Last("_write", Undefined, Undefined, n, NoFault, Pending)
                         /\ UNCHANGED emitted
                ELSE /\ emitted' = Append(emitted,
                                       Event("error", UnexpectedResponse(message.id, "error")))
                     /\ calls' = Answered(calls, message.id)
                     /\ last' = Last("_write", Undefined, Undefined, n,
                                     UnexpectedResponse(message.id, "error"), Pending)
                     /\ UNCHANGED pendingRequests
           ELSE /\ emitted' = Append(emitted, Event("error", rpcError))
                /\ last' = Last("_write", Undefined, Undefined, n, rpcError, Pending)
                /\ UNCHANGED <<calls, pendingRequests>>

(* Writable._write: one chunk from the codec *)
_write(chunk) ==
    /\ ~ended
    /\ ops < MaxOps
    /\ ops' = ops + 1
    /\ UNCHANGED <<ended, requestIdIterator, onRequest, onNotification>>
    /\ IF chunk.pe
       THEN /\ emitted' = Append(emitted, Event("protocolError", ParseError(MSG_NOT_JSON)))
            /\ readable' = pushErrorTo(readable, toErrorObject(ParseError(MSG_NOT_JSON)))
            /\ last' = Last("_write", Undefined, Undefined, ChunkNo(chunk), NoFault, Pending)
            /\ UNCHANGED <<calls, pendingRequests, handling>>
       ELSE LET message == parse(chunk.o)
            IN  IF message.kind = "throw"
                THEN LET err == InvalidRequest(MSG_NOT_VALID, BadObject(chunk))
                     IN  /\ emitted' = Append(emitted, Event("protocolError", err))
                         /\ readable' = pushErrorTo(readable, toErrorObject(err))
                         /\ last' = Last("_write", Undefined, Undefined, ChunkNo(chunk),
                                         NoFault, Pending)
                         /\ UNCHANGED <<calls, pendingRequests, handling>>
                ELSE IF message.kind = "request"
                THEN handleRequest(message, ChunkNo(chunk))
                ELSE IF message.kind = "notification"
                THEN handleNotification(message, ChunkNo(chunk))
                ELSE IF message.kind = "response"
                THEN handleResponse(message, ChunkNo(chunk))
                ELSE handleError(message, ChunkNo(chunk))

sendNotificationWhileOpen(method, params) ==
    /\ ops < MaxOps
    /\ ops' = ops + 1
    /\ readable' = IF ended THEN readable ELSE push(readable, notification(method, params))
    /\ last' = Last("sendNotification", method, params, 0, NoFault, Pending)
    /\ UNCHANGED <<ended, pendingRequests, requestIdIterator, onRequest,
                   onNotification, calls, emitted, handling>>

sendNotification(method, params) ==
    /\ ops < MaxOps
    /\ ops' = ops + 1
    /\ readable' = push(readable, notification(method, params))
    /\ last' = Last("sendNotification", method, params, 0, NoFault, Pending)
    /\ UNCHANGED <<ended, pendingRequests, requestIdIterator, onRequest,
                   onNotification, calls, emitted, handling>>

PushedErrors == { ErrorObject(Undefined, ErrObj(IntV(0), StrV(7), Undefined)) }

pushError(eo) ==
    /\ ops < MaxOps
    /\ ops' = ops + 1
    /\ readable' = pushErrorTo(readable, eo)
    /\ last' = Last("pushError", Undefined, Undefined, 0,
                    IF pushErrorThrows(eo) THEN TypeError ELSE NoFault, Pending)
    /\ UNCHANGED <<ended, pendingRequests, requestIdIterator, onRequest,
                   onNotification, calls, emitted, handling>>

(* the steps of a Peer; the dispatcher and the protocol functions are not used *)
Idle == UNCHANGED <<dispatcherVars, protocolVars, jobVars>>

Next ==
    \/ \E a \in CallArgs : callMethod(a[1], a[2], a[3]) /\ Idle
    \/ \E k \in DOMAIN calls : timerFires(k) /\ Idle
    \/ \E c \in Chunks : _write(c) /\ Idle
    \/ \E i \in DOMAIN handling, o \in HandlerOutcomes : handlerSettles(i, o) /\ Idle
    \/ \E a \in NotifyArgs : sendNotification(a[1], a[2]) /\ Idle
    \/ \E eo \in PushedErrors : pushError(eo) /\ Idle
    \/ onend /\ Idle

Spec == Init /\ [][Next]_vars

TypeOK ==
    /\ ended \in BOOLEAN
    /\ \A e \in pendingRequests : e.call \in DOMAIN calls
    /\ \A a, b \in pendingRequests : a.id = b.id => a = b

(* ---------------------------------------------------------------------- *)
(* Properties of outbound calls                                            *)
(* ---------------------------------------------------------------------- *)
Settled(c) == c.outcome.state # "pending"
TimedOut(c) == c.outcome = Rejected(MethodCallTimeout(c.method))
Outstanding(k) == \E e \in pendingRequests : e.call = k
(* the chunk a _write step received *)
ChunkOf(l) == ChunkList[l.n]
IsWrite(l, kind) ==
    /\ l.op = "_write"
    /\ ~ChunkOf(l).pe
    /\ parse(ChunkOf(l).o).kind = kind

(* the outcome the event of this step brings to call k, Pending when the step
   is none of: its timer firing, a Response or Error with its id while it is
   outstanding, the stream ending while it is outstanding *)
OccurredFor(k, l) ==
    IF l.op = "timer" /\ l.n = k
    THEN Rejected(MethodCallTimeout(calls[k].method))
    ELSE IF l.op = "onend" /\ Outstanding(k)
    THEN Rejected(RPCStreamClosed(calls[k].method))
    ELSE IF IsWrite(l, "response") /\ ChunkOf(l).o.id = calls[k].id /\ Outstanding(k)
    THEN Resolved(ChunkOf(l).o.result)
    ELSE IF IsWrite(l, "error") /\ ChunkOf(l).o.id = calls[k].id /\ Outstanding(k)
    THEN Rejected(RPCError(ChunkOf(l).o.error.message, ChunkOf(l).o.error.code,
                           ChunkOf(l).o.error.data))
    ELSE Pending

(* C1: the promise of a call settles at most once: while it is pending, the
   first of its timer firing, a matching Response or Error, and the stream
   ending settles it with that event's outcome, and once it is settled no later
   event changes its outcome. *)
C1_SettlesOnceWithFirstEvent ==
    [][\A k \in DOMAIN calls :
          calls'[k].outcome = IF Settled(calls[k])
                              THEN calls[k].outcome
                              ELSE OccurredFor(k, last')]_vars

(* a call that timed out, and whose Response came afterwards *)
C1_Witness ==
    \E k \in DOMAIN calls :
        /\ calls[k].timer = "fired"
        /\ TimedOut(calls[k])
        /\ calls[k].answered
        /\ ~Outstanding(k)

(* C2: a Response resolves the pending call that carries the Response's id
   with the Response's result and changes the outcome of no other call, and a
   call is resolved by nothing but a Response that carries its id. *)
C2_ResponseResolvesOwnCall ==
    [][\A k \in DOMAIN calls :
          /\ IsWrite(last', "response") =>
                calls'[k].outcome =
                    IF ChunkOf(last').o.id = calls[k].id /\ ~Settled(calls[k])
                    THEN Resolved(ChunkOf(last').o.result)
                    ELSE calls[k].outcome
          /\ (~Settled(calls[k]) /\ calls'[k].outcome.state = "resolved") =>
                /\ IsWrite(last', "response")
                /\ ChunkOf(last').o.id = calls[k].id
                /\ calls'[k].outcome.value = ChunkOf(last').o.result]_vars

(* two calls outstanding and the Response to the second received first: the
   second holds that result, the first is still pending *)
C2_Witness ==
    /\ Len(calls) >= 2
    /\ calls[1].id = IntV(0) /\ Outstanding(1) /\ ~Settled(calls[1])
    /\ calls[2].id = IntV(1) /\ calls[2].outcome = Resolved(StrV(6))
    /\ IsWrite(last, "response") /\ ChunkOf(last).o.id = IntV(1)

(* C3: a call on an open Peer whose pulled id is a valid id that keys no
   pending entry pushes exactly one value, the Request with the method and
   params given and the id pulled, and adds exactly one pending entry, keyed by
   that id. *)
C3_CallEmitsRequestAndEntry ==
    [][LET idResult == next(requestIdIterator)
           id == idResult.value
       IN  (/\ last'.op = "callMethod"
            /\ ~ended
            /\ ~idResult.done
            /\ RPCID(id)
            /\ \A e \in pendingRequests : e.id # id)
           => /\ readable' = Append(readable,
                                 Wire(STR_2_0, id, last'.method, last'.params,
                                      Undefined, NoError))
              /\ pendingRequests \subseteq pendingRequests'
              /\ \E e \in pendingRequests' :
                     /\ pendingRequests' \ pendingRequests = {e}
                     /\ e.id = id
                     /\ e.call = Len(calls')]_vars

(* a call just made whose entry is kept while another call is outstanding *)
C3_Witness ==
    /\ last.op = "callMethod"
    /\ last.n = 2
    /\ Outstanding(1) /\ Outstanding(2)
    /\ readable # <<>>
    /\ readable[Len(readable)] = request(calls[2].id, calls[2].method, calls[2].params)

(* C4: when the stream ends, every call that is outstanding is rejected with
   RPCStreamClosed naming its own method, and the pending-call mapping is
   emptied. *)
C4_EndRejectsOutstandingCalls ==
    [][last'.op = "onend" =>
          /\ pendingRequests' = {}
          /\ \A k \in DOMAIN calls :
                ~Settled(calls[k]) =>
                    calls'[k].outcome =
                        [state |-> "rejected", value |-> Undefined,
                         reason |-> Fault("RPCStreamClosed", calls[k].method,
                                          Undefined, NoError, "")]]_vars

(* the stream ended with two calls to different methods outstanding *)
C4_Witness ==
    /\ ended
    /\ Len(calls) >= 2
    /\ calls[1].id # Undefined /\ calls[2].id # Undefined
    /\ calls[1].method # calls[2].method
    /\ \A k \in {1, 2} : calls[k].outcome = Rejected(RPCStreamClosed(calls[k].method))

(* C5: a call on an ended Peer returns a promise rejected with RPCStreamClosed
   and does nothing else: it throws nothing, pushes nothing, pulls no id and
   adds no pending entry. *)
C5_CallAfterEndRejects ==
    [][(last'.op = "callMethod" /\ ended) =>
          /\ last'.thrown = NoFault
          /\ Len(calls') = Len(calls) + 1
          /\ calls'[Len(calls')].outcome = Rejected(RPCStreamClosed(last'.method))
          /\ \A k \in DOMAIN calls : calls'[k] = calls[k]
          /\ UNCHANGED <<readable, requestIdIterator, pendingRequests, emitted>>]_vars

(* a call made after the stream ended, on a Peer whose iterator has ids left *)
C5_Witness ==
    /\ ended
    /\ last.op = "callMethod"
    /\ last.n > 0
    /\ calls[last.n].outcome = Rejected(RPCStreamClosed(last.method))
    /\ calls[last.n].id = Undefined
    /\ ~next(requestIdIterator).done

(* C6: when the timer of a call fires while the call is still pending, the
   call is rejected with MethodCallTimeout naming its method, and a call
   rejected so keeps that outcome: it is never resolved afterwards. *)
C6_TimeoutRejects ==
    [][\A k \in DOMAIN calls :
          /\ (last'.op = "timer" /\ last'.n = k /\ ~Settled(calls[k])) =>
                calls'[k].outcome =
                    [state |-> "rejected", value |-> Undefined,
                     reason |-> Fault("MethodCallTimeout", calls[k].method,
                                      Undefined, NoError, "")]
          /\ (calls[k].outcome.state = "rejected"
                /\ calls[k].outcome.reason.kind = "MethodCallTimeout") =>
                calls'[k].outcome = calls[k].outcome]_vars

(* the timer of a call fired before anything answered the call *)
C6_Witness ==
    \E k \in DOMAIN calls :
        /\ last.op = "timer" /\ last.n = k
        /\ calls[k].timer = "fired"
        /\ ~calls[k].answered
        /\ ~ended
        /\ calls[k].outcome.reason.kind = "MethodCallTimeout"

(* a Response that carries the id of a call that timed out, the latest call
   made with that id *)
LateResponseFor(k, l) ==
    /\ IsWrite(l, "response")
    /\ ChunkOf(l).o.id = calls[k].id
    /\ LatestCall(calls[k].id) = k
    /\ calls[k].timer = "fired"
Silent == UNCHANGED <<readable, emitted>> /\ last'.thrown = NoFault

(* C7 as claimed: every Response arriving for a call whose timeout has fired
   pushes nothing, emits no event and leaves the rejected promise as it is. *)
C7_Claimed ==
    [][\A k \in DOMAIN calls :
          LateResponseFor(k, last') =>
              Silent /\ calls'[k].outcome = calls[k].outcome]_vars

(* C7: the first Response arriving for a call whose timeout has fired pushes
   nothing, emits no event (no UnexpectedResponse) and leaves the rejected
   promise as it is; it takes the call's entry out of the pending-call
   mapping. *)
C7_FirstLateResponseSilent ==
    [][\A k \in DOMAIN calls :
          (LateResponseFor(k, last') /\ ~calls[k].answered) =>
              /\ Silent
              /\ calls'[k].outcome = calls[k].outcome
              /\ TimedOut(calls'[k])
              /\ ~\E e \in pendingRequests' : e.id = calls[k].id]_vars

(* the Response to a call that timed out has just been received *)
C7_Witness ==
    \E k \in DOMAIN calls :
        /\ IsWrite(last, "response")
        /\ ChunkOf(last).o.id = calls[k].id
        /\ calls[k].timer = "fired"
        /\ TimedOut(calls[k])
        /\ calls[k].answered
        /\ last.thrown = NoFault
        /\ emitted = <<>>

(* C8: a call that was given a timeout and was settled by a Response, by an
   Error or by the stream ending has its timer cleared; no call that is
   settled has a timer still armed, and a timer once cleared never fires. *)
C8_TimerCleared ==
    /\ [](\A k \in DOMAIN calls :
            /\ Settled(calls[k]) => calls[k].timer # "armed"
            /\ (calls[k].timer # "none" /\ Settled(calls[k])
                  /\ calls[k].outcome.reason.kind # "MethodCallTimeout") =>
                  calls[k].timer = "cleared")
    /\ [][\A k \in DOMAIN calls :
            calls[k].timer = "cleared" => calls'[k].timer = "cleared"]_vars

(* a call with a timeout resolved by its Response, another rejected by the
   stream ending *)
C8_Witness ==
    /\ ended
    /\ \E k \in DOMAIN calls :
          calls[k].timer = "cleared" /\ calls[k].outcome.state = "resolved"
    /\ \E k \in DOMAIN calls :
          calls[k].timer = "cleared" /\ calls[k].outcome.reason.kind = "RPCStreamClosed"

(* C9: a call for which the id iterator is done, or yields an id that keys a
   pending entry, throws; it pulls from the iterator once, pushes nothing, adds
   no entry, and leaves every entry and every promise as they were. *)
C9_BadIdThrows ==
    [][LET idResult == next(requestIdIterator)
       IN  (/\ last'.op = "callMethod"
            /\ ~ended
            /\ \/ idResult.done
               \/ \E e \in pendingRequests : e.id = idResult.value)
           => /\ last'.thrown.kind = "Error"
              /\ last'.thrown.what = IF idResult.done THEN "out of request ids"
                                                      ELSE "id already used"
              /\ requestIdIterator' = idResult.it
              /\ UNCHANGED <<readable, pendingRequests, calls, emitted>>]_vars

(* the iterator repeated the id of an outstanding call, then was done *)
C9_Witness ==
    /\ last.op = "callMethod"
    /\ last.thrown = OutOfRequestIds
    /\ requestIdIterator = ArrayIterator(<<>>)
    /\ Len(calls) = 1
    /\ calls[1].id = IntV(1)
    /\ Outstanding(1) /\ ~Settled(calls[1])
    /\ Len(readable) = 1

(* ---------------------------------------------------------------------- *)
(* Properties of inbound requests                                          *)
(* ---------------------------------------------------------------------- *)
(* the id of the Request whose handler settled in this step *)
RequestIdOf(l) == IF l.op = "_write" THEN ChunkOf(l).o.id ELSE handling[l.n].id

(* C10: when the request handler succeeds, at once or through a promise, the
   Peer pushes exactly one value, the Response with the Request's id and the
   value returned, null when undefined was returned, and emits no event. *)
C10_HandlerValueBecomesResponse ==
    [][(last'.o.state = "resolved") =>
          /\ readable' = Append(readable,
                             Wire(STR_2_0, RequestIdOf(last'), Undefined, Undefined,
                                  IF last'.o.value = Undefined THEN Null
                                                               ELSE last'.o.value,
                                  NoError))
          /\ emitted' = emitted]_vars

(* a Request answered at once with the handler's value, then a Request whose
   handler returned a promise that resolved to undefined *)
C10_Witness ==
    /\ Len(readable) = 2
    /\ Len(handling) = 1
    /\ last.op = "handlerSettles"
    /\ last.o = Resolved(Undefined)
    /\ readable[1].id = IntV(5) /\ readable[1].result = StrV(5)
    /\ readable[2].id = IntV(5) /\ readable[2].result = Null

(* the Error message with this id and this error member, and nothing else *)
ErrorWire(id, code, message, data) ==
    [jsonrpc |-> StrV(20), id |-> id, method |-> Undefined, params |-> Undefined,
     result |-> Undefined,
     error |-> [t |-> "object", code |-> code, message |-> message, data |-> data]]
(* the request handler of this step failed, at once or through its promise *)
HandlerFailed(l) == l.op \in {"_write", "handlerSettles"} /\ l.o.state = "rejected"

(* C11 as claimed: when the request handler throws or rejects with an instance
   of RPCError, the Peer pushes exactly one value, the Error message with the
   Request's id and the fault's code, message and data, and emits no 'error'
   event. *)
C11_Claimed ==
    [][(HandlerFailed(last') /\ InstanceofRPCError(last'.o.reason)) =>
          /\ readable' = Append(readable,
                             ErrorWire(RequestIdOf(last'), last'.o.reason.e.code,
                                       last'.o.reason.e.message, last'.o.reason.e.data))
          /\ emitted' = emitted]_vars

(* C12: when the request handler throws or rejects with a fault that is no
   RPCError, the Peer pushes exactly one value, the Error message with the
   Request's id, code INTERNAL_ERROR (-32603), the fixed message and no data,
   and emits exactly one event, 'error' with the handler's fault. *)
C12_OtherFaultBecomesInternalError ==
    [][(HandlerFailed(last') /\ ~InstanceofRPCError(last'.o.reason)) =>
          /\ readable' = Append(readable,
                             ErrorWire(RequestIdOf(last'), IntV(-32603), StrV(90),
                                       Undefined))
          /\ emitted' = Append(emitted, [name |-> "error", fault |-> last'.o.reason])]_vars

(* a handler's promise rejected with a plain Error: the internal error went
   out with the Request's id and the Error was emitted *)
C12_Witness ==
    /\ last.op = "handlerSettles"
    /\ last.o = Rejected(HandlerError)
    /\ readable = <<ErrorWire(IntV(5), IntV(-32603), StrV(90), Undefined)>>
    /\ emitted = <<Event("error", HandlerError)>>

(* C13: with no request handler attached, the step that receives a Request
   pushes exactly one value, an Error message with the Request's id and code
   METHOD_NOT_FOUND (-32601); no handler promise is kept and no event is
   emitted. *)
C13_NoHandlerMethodNotFound ==
    [][(IsWrite(last', "request") /\ ~onRequest) =>
          /\ Len(readable') = Len(readable) + 1
          /\ \A i \in DOMAIN readable : readable'[i] = readable[i]
          /\ readable'[Len(readable')].id = ChunkOf(last').o.id
          /\ readable'[Len(readable')].error.code = IntV(-32601)
          /\ readable'[Len(readable')].result = Undefined
          /\ readable'[Len(readable')].method = Undefined
          /\ UNCHANGED <<handling, emitted>>]_vars

(* two Requests received by a Peer without handlers, each answered *)
C13_Witness ==
    /\ ~onRequest
    /\ IsWrite(last, "request")
    /\ Len(readable) = 2
    /\ \A i \in {1, 2} : readable[i].id = IntV(5) /\ readable[i].error.code = IntV(-32601)
    /\ handling = <<>>

(* ---------------------------------------------------------------------- *)
(* Properties of inbound faults                                            *)
(* ---------------------------------------------------------------------- *)
(* C14: the step that receives a ParseError instance from the codec emits
   exactly one event, 'protocolError' with that fault, pushes exactly one
   value, the Error message with id null and code PARSE_ERROR (-32700), emits
   no 'error' event, leaves the pending-call mapping and every promise as they
   were, and completes the write without a fault, the Peer still open. *)
C14_DecodeFaultBecomesParseError ==
    [][(last'.op = "_write" /\ ChunkOf(last').pe) =>
          /\ emitted' = Append(emitted,
                [name |-> "protocolError",
                 fault |-> [kind |-> "ParseError", method |-> Undefined,
                            id |-> Undefined, what |-> "",
                            e |-> [t |-> "object", code |-> IntV(-32700),
                                   message |-> StrV(93), data |-> Undefined]]])
          /\ readable' = Append(readable,
                             ErrorWire(Null, IntV(-32700), StrV(93), Undefined))
          /\ UNCHANGED <<pendingRequests, calls, handling>>
          /\ last'.thrown = NoFault
          /\ ~ended']_vars

(* a decode fault received while a call is outstanding, and the Response to
   that call received after it *)
C14_Witness ==
    /\ Len(calls) = 1
    /\ calls[1].outcome = Resolved(StrV(5))
    /\ Len(readable) = 2
    /\ readable[2] = ErrorWire(Null, IntV(-32700), StrV(93), Undefined)
    /\ emitted = <<Event("protocolError", ParseError(MSG_NOT_JSON))>>
    /\ IsWrite(last, "response")

(* C15: the step that receives a value parse rejects emits exactly one event,
   'protocolError' with an InvalidRequest fault whose data holds the value,
   pushes exactly one value, the Error message with id null, code
   INVALID_REQUEST (-32600) and the same data, and reaches no handler and no
   pending call: no promise, no entry and no handler promise changes. *)
C15_MalformedBecomesInvalidRequest ==
    [][IsWrite(last', "throw") =>
          /\ emitted' = Append(emitted,
                [name |-> "protocolError",
                 fault |-> [kind |-> "InvalidRequest", method |-> Undefined,
                            id |-> Undefined, what |-> "",
                            e |-> [t |-> "object", code |-> IntV(-32600),
                                   message |-> StrV(92),
                                   data |-> BadObject(ChunkOf(last'))]]])
          /\ readable' = Append(readable,
                             ErrorWire(Null, IntV(-32600), StrV(92),
                                       BadObject(ChunkOf(last'))))
          /\ UNCHANGED <<pendingRequests, calls, handling>>
          /\ last'.thrown = NoFault]_vars

(* a malformed value that carries the id of an outstanding call, a method and
   a result: the call is still pending *)
C15_Witness ==
    /\ IsWrite(last, "throw")
    /\ ChunkOf(last).o.id = IntV(1)
    /\ \E k \in DOMAIN calls :
          calls[k].id = IntV(1) /\ Outstanding(k) /\ ~Settled(calls[k])
    /\ readable[Len(readable)].error.code = IntV(-32600)
    /\ readable[Len(readable)].error.data = ObjV(108)
    /\ handling = <<>>

(* the step received a Response, or an Error with a non-null id, whose id keys
   no pending entry *)
Unmatched(l) ==
    /\ IsWrite(l, "response") \/ (IsWrite(l, "error") /\ ChunkOf(l).o.id # Null)
    /\ \A e \in pendingRequests : e.id # ChunkOf(l).o.id

(* C16: a Response, or an Error with a non-null id, whose id keys no pending
   entry makes the Peer emit exactly one event, 'error' with an
   UnexpectedResponse that carries the id and the kind of the message;
   nothing is pushed, no promise changes its outcome and the pending-call
   mapping stays as it was. *)
C16_UnmatchedIsUnexpectedResponse ==
    [][Unmatched(last') =>
          /\ emitted' = Append(emitted,
                [name |-> "error",
                 fault |-> [kind |-> "UnexpectedResponse", method |-> Undefined,
                            id |-> ChunkOf(last').o.id, e |-> NoError,
                            what |-> parse(ChunkOf(last').o).kind]])
          /\ \A k \in DOMAIN calls : calls'[k].outcome = calls[k].outcome
          /\ Len(calls') = Len(calls)
          /\ UNCHANGED <<pendingRequests, readable, handling>>]_vars

(* an Error and then a Response with id 1 received while the only outstanding
   call has id 0 *)
C16_Witness ==
    /\ Len(calls) = 1
    /\ calls[1].id = IntV(0) /\ Outstanding(1) /\ ~Settled(calls[1])
    /\ emitted = << Event("error", UnexpectedResponse(IntV(1), "error")),
                    Event("error", UnexpectedResponse(IntV(1), "response")) >>

(* the RPCError instance handleError builds from the Error message of a step *)
RemoteFault(l) ==
    [kind |-> "RPCError", method |-> Undefined, id |-> Undefined, what |-> "",
     e |-> [t |-> "object", code |-> ChunkOf(l).o.error.code,
            message |-> ChunkOf(l).o.error.message,
            data |-> ChunkOf(l).o.error.data]]

(* C17: an Error whose non-null id keys a pending entry takes that entry, and
   no other, out of the pending-call mapping and rejects the pending promise of
   that entry's call with an RPCError that carries the code, message and data
   of the Error; the outcome of no other call changes, nothing is pushed and no
   event is emitted. *)
C17_MatchedErrorRejectsOwnCall ==
    [][(/\ IsWrite(last', "error")
        /\ ChunkOf(last').o.id # Null
        /\ \E e \in pendingRequests : e.id = ChunkOf(last').o.id)
       => /\ pendingRequests' = {e \in pendingRequests : e.id # ChunkOf(last').o.id}
          /\ \A k \in DOMAIN calls :
                calls'[k].outcome =
                    IF /\ \E e \in pendingRequests :
                              e.id = ChunkOf(last').o.id /\ e.call = k
                       /\ ~Settled(calls[k])
                    THEN [state |-> "rejected", value |-> Undefined,
                          reason |-> RemoteFault(last')]
                    ELSE calls[k].outcome
          /\ UNCHANGED <<readable, emitted>>]_vars

(* two calls outstanding and the Error for the second received: the second
   is rejected with the remote error, the first is still pending *)
C17_Witness ==
    /\ Len(calls) = 2
    /\ calls[1].id = IntV(0) /\ Outstanding(1) /\ ~Settled(calls[1])
    /\ calls[2].id = IntV(1) /\ ~Outstanding(2)
    /\ calls[2].outcome = Rejected(RPCError(StrV(7), IntV(3), StrV(9)))
    /\ IsWrite(last, "error")
    /\ emitted = <<>>

(* C18: an Error with id null makes the Peer emit exactly one event, 'error'
   with an RPCError that carries the code, message and data of the Error; no
   promise changes its outcome, whatever calls are pending, the pending-call
   mapping stays as it was and nothing is pushed. *)
C18_NullIdErrorIsEmitted ==
    [][(IsWrite(last', "error") /\ ChunkOf(last').o.id = Null) =>
          /\ emitted' = Append(emitted, [name |-> "error", fault |-> RemoteFault(last')])
          /\ calls' = calls
          /\ UNCHANGED <<pendingRequests, readable, handling>>]_vars

(* an Error with id null received while two calls are outstanding *)
C18_Witness ==
    /\ Len(calls) = 2
    /\ \A k \in {1, 2} : Outstanding(k) /\ ~Settled(calls[k])
    /\ IsWrite(last, "error")
    /\ ChunkOf(last).o.id = Null
    /\ emitted = <<Event("error", RPCError(StrV(7), IntV(3), StrV(9)))>>

(* ---------------------------------------------------------------------- *)
(* Properties of the ended Peer                                            *)
(* ---------------------------------------------------------------------- *)
(* C19 as claimed: on an ended Peer sendNotification and pushError push
   nothing and throw nothing. *)
C19_Claimed ==
    [][(ended /\ last'.op \in {"sendNotification", "pushError"}) =>
          /\ readable' = readable
          /\ last'.thrown = NoFault]_vars

(* C19: on an ended Peer sendNotification and pushError throw nothing on
   account of the end and push what they push on an open Peer:
   sendNotification exactly one value, the Notification with the method and
   params given, and pushError exactly one value, the Error message built from
   its argument; neither emits an event nor touches a call. *)
C19_SendsAfterEnd ==
    [][/\ (ended /\ last'.op = "sendNotification") =>
             /\ readable' = Append(readable,
                                [jsonrpc |-> StrV(20), id |-> Undefined,
                                 method |-> last'.method, params |-> last'.params,
                                 result |-> Undefined, error |-> NoError])
             /\ last'.thrown = NoFault
             /\ UNCHANGED <<emitted, calls, pendingRequests>>
       /\ (ended /\ last'.op = "pushError") =>
             /\ readable' = Append(readable, ErrorWire(Null, IntV(0), StrV(7), Undefined))
             /\ last'.thrown = NoFault
             /\ UNCHANGED <<emitted, calls, pendingRequests>>]_vars

(* the stream ended, then a notification was sent and an error pushed *)
C19_Witness ==
    /\ ended
    /\ last.op = "pushError"
    /\ readable = << notification(StrV(2), ArrV(1)),
                     ErrorWire(Null, IntV(0), StrV(7), Undefined) >>
    /\ calls = <<>>

(* C20: when the promise of a request handler settles after the stream ended,
   the Peer pushes what it pushes on an open Peer, with the Request's id: the
   Response with the value, the Error message with the code, message and data of
   an RPCError whose code is an integer, the INTERNAL_ERROR message for any
   other fault; for an RPCError whose code is no integer jrpc.error throws and
   no Error message exists, ended or not. *)
C20_LateHandlerStillAnswers ==
    [][(ended /\ last'.op = "handlerSettles") =>
          LET id == handling[last'.n].id
              o == last'.o
          IN  IF o.state = "resolved"
              THEN readable' = Append(readable,
                                  [jsonrpc |-> StrV(20), id |-> id, method |-> Undefined,
                                   params |-> Undefined, error |-> NoError,
                                   result |-> IF o.value = Undefined THEN Null
                                                                     ELSE o.value])
              ELSE IF o.reason.kind # "RPCError"
              THEN readable' = Append(readable,
                                  ErrorWire(id, IntV(-32603), StrV(90), Undefined))
              ELSE IF o.reason.e.code.t = "int"
              THEN readable' = Append(readable,
                                  ErrorWire(id, o.reason.e.code, o.reason.e.message,
                                            o.reason.e.data))
              ELSE readable' = readable]_vars

(* two Requests received, the stream ended with both handlers pending, then
   one handler resolved and the other rejected with an RPCError *)
C20_Witness ==
    /\ ended
    /\ last.op = "handlerSettles"
    /\ Len(handling) = 2
    /\ handling[1].done /\ handling[2].done
    /\ readable = << Wire(STR_2_0, IntV(5), Undefined, Undefined, StrV(5), NoError),
                     ErrorWire(IntV(5), IntV(42), StrV(8), StrV(9)) >>
    /\ last.o = Rejected(RPCError(StrV(8), IntV(42), StrV(9)))
    /\ ops = 2

(* ---------------------------------------------------------------------- *)
(* Properties of inbound notifications and of local faults                 *)
(* ---------------------------------------------------------------------- *)
(* the notification handler threw while this step handled a Notification *)
NotificationHandlerThrew(l) == IsWrite(l, "notification") /\ l.thrown # NoFault

(* C21 as claimed: a fault thrown by the notification handler emits no event,
   pushes nothing and leaves the Peer open. *)
C21_Claimed ==
    [][NotificationHandlerThrew(last') =>
          /\ emitted' = emitted
          /\ readable' = readable
          /\ ~ended']_vars

(* C21: a fault thrown by the notification handler makes the Peer emit
   exactly one event, 'error' with that fault, and no 'protocolError'; nothing
   is pushed, no call and no pending entry changes, and the Peer stays open for
   the next chunk. *)
C21_NotificationFaultIsEmitted ==
    [][NotificationHandlerThrew(last') =>
          /\ emitted' = Append(emitted, [name |-> "error", fault |-> last'.thrown])
          /\ readable' = readable
          /\ UNCHANGED <<calls, pendingRequests, handling>>
          /\ ~ended']_vars

(* the notification handler threw, then the Response to an outstanding call
   was received and resolved the call *)
C21_Witness ==
    /\ emitted = <<Event("error", HandlerError)>>
    /\ Len(calls) = 1
    /\ calls[1].outcome.state = "resolved"
    /\ IsWrite(last, "response")
    /\ Len(readable) = 1

(* C22: nothing is pushed by a step in which a timer fires, the stream ends,
   a Response or Error keys no pending entry, an Error has id null, or
   callMethod throws for want of an id or for a repeated id. *)
C22_LocalFaultsPushNothing ==
    [][(\/ last'.op = "timer"
        \/ last'.op = "onend"
        \/ Unmatched(last')
        \/ (IsWrite(last', "error") /\ ChunkOf(last').o.id = Null)
        \/ (last'.op = "callMethod" /\ last'.thrown # NoFault))
       => readable' = readable]_vars

(* a call timed out, a Response that keys no entry and an Error with id null
   were received and the stream ended: only the Request of the call went out *)
C22_Witness ==
    /\ ended
    /\ Len(calls) = 1
    /\ TimedOut(calls[1])
    /\ emitted = << Event("error", UnexpectedResponse(IntV(1), "response")),
                    Event("error", RPCError(StrV(7), IntV(3), StrV(9))) >>
    /\ readable = <<request(calls[1].id, calls[1].method, calls[1].params)>>

(* ---------------------------------------------------------------------- *)
(* TypesafeRequestDispatcher                                               *)
(* ---------------------------------------------------------------------- *)
(* the io-ts types handlers are registered with: t.any,
   t.tuple([t.number, t.number]) and t.tuple([DateFromString]) *)
T_ANY == 1
T_NUM_NUM == 2
T_DATE == 3
ParamsTypes == {T_ANY, T_NUM_NUM, T_DATE}

(* the params dispatched: [3, 4], [an ISO date string], { baz: 'haha' }; and
   [a Date], which the decoder of T_DATE makes of the second *)
PARAMS_3_4 == ArrV(1)
PARAMS_ISO == ArrV(3)
PARAMS_BAZ == ObjV(1)
PARAMS_DATE == ArrV(30)
DispatchParams == {PARAMS_3_4, PARAMS_ISO, PARAMS_BAZ}
ParamsNo(params) == IF params = PARAMS_3_4 THEN 0 ELSE IF params = PARAMS_ISO THEN 1 ELSE 2

(* paramsType.decode(params): an Either, with the decoded value on the right *)
decode(paramsType, params) ==
    IF paramsType = T_ANY
    THEN [isRight |-> TRUE, right |-> params]
    ELSE IF paramsType = T_NUM_NUM
    THEN [isRight |-> params = PARAMS_3_4, right |-> params]
    ELSE [isRight |-> params = PARAMS_ISO, right |-> PARAMS_DATE]

(* PathReporter.report(decoded): the diagnostic of one failed decode, numbered
   1..9 by the type and the params; a list of diagnostics is the number with
   these digits, in order *)
report(paramsType, params) == paramsType + 3 * ParamsNo(params)
NoValidationErrors == 0
keepFirstValidationError(validationErrors, diagnostic) ==
    IF validationErrors = 0 THEN diagnostic ELSE validationErrors

pushValidationError(validationErrors, diagnostic) == validationErrors * 10 + diagnostic

(* name.startsWith('rpc.') *)
startsWithRpc(name) == name = METHOD_RPC_FOO

(* the faults of the dispatcher *)
ReservedName == Fault("TypeError", Undefined, Undefined, NoError, "reserved")
MethodNotFound(message, data) ==
    Fault("MethodNotFound", Undefined, Undefined, ErrObj(METHOD_NOT_FOUND, message, data), "")
InvalidParams(message, data) ==
    Fault("InvalidParams", Undefined, Undefined, ErrObj(INVALID_PARAMS, message, data), "")
(* the template strings `No such method: '${method}'` and
   `Invalid parameters for method ${method}` *)
MSG_NO_SUCH_METHOD(name) == StrV(200 + name.v)
MSG_INVALID_PARAMS(name) == StrV(300 + name.v)

(* a registered handler: its type and its function, numbered from 1; 0 is
   the defaultNotificationHandler *)
TypedHandlerFn(paramsType, fn) == [paramsType |-> paramsType, fn |-> fn]
defaultNotificationHandler == 0
(* a call of a handler function: a registered handler gets the decoded
   params, the default notification handler the method and the raw params *)
Invocation(fn, name, params) == [fn |-> fn, method |-> name, params |-> params]
(* what the handler function fn returns *)
ReturnOf(fn) == IntV(100 + fn)

registerReserved(collection, name, paramsType, impl) ==
    [collection EXCEPT ![name] = Append(@, TypedHandlerFn(paramsType, impl))]

(* TypesafeRequestDispatcher.register, which throws for a reserved name *)
register(collection, name, paramsType, impl) ==
    IF startsWithRpc(name)
    THEN collection
    ELSE [collection EXCEPT ![name] = Append(@, TypedHandlerFn(paramsType, impl))]

(* the function given to a registration: a new one each time *)
NextImpl == ops + 1

(* TypesafeRequestDispatcher.method *)
dispatcherMethod(name, paramsType) ==
    /\ ops < MaxOps
    /\ ops' = ops + 1
    /\ requestHandlers' = register(requestHandlers, name, paramsType, NextImpl)
    /\ invoked' = <<>>
    /\ last' = Last("method", name, Undefined, 0,
                    IF startsWithRpc(name) THEN ReservedName ELSE NoFault, Pending)
    /\ UNCHANGED notificationHandlers

notificationInOneRegistry(name, paramsType) ==
    /\ ops < MaxOps
    /\ ops' = ops + 1
    /\ requestHandlers' = register(requestHandlers, name, paramsType, NextImpl)
    /\ notificationHandlers' = register(notificationHandlers, name, paramsType, NextImpl)
    /\ invoked' = <<>>
    /\ last' = Last("notification", name, Undefined, 0,
                    IF startsWithRpc(name) THEN ReservedName ELSE NoFault, Pending)

(* TypesafeRequestDispatcher.notification *)
dispatcherNotification(name, paramsType) ==
    /\ ops < MaxOps
    /\ ops' = ops + 1
    /\ notificationHandlers' = register(notificationHandlers, name, paramsType, NextImpl)
    /\ invoked' = <<>>
    /\ last' = Last("notification", name, Undefined, 0,
                    IF startsWithRpc(name) THEN ReservedName ELSE NoFault, Pending)
    /\ UNCHANGED requestHandlers

firstHandlerOnly(handlers, params, i, validationErrors) ==
    IF handlers = <<>>
    THEN [found |-> 0, validationErrors |-> validationErrors]
    ELSE IF decode(handlers[1].paramsType, params).isRight
    THEN [found |-> 1, validationErrors |-> validationErrors]
    ELSE [found |-> 0,
          validationErrors |-> pushValidationError(validationErrors,
                                   report(handlers[1].paramsType, params))]

(* for (const { fn, paramsType } of handlers): the index of the first handler
   whose type decodes the params, 0 when there is none, and the diagnostics of
   the handlers tried before *)
RECURSIVE tryHandlers(_, _, _, _)
tryHandlers(handlers, params, i, validationErrors) ==
    IF i > Len(handlers)
    THEN [found |-> 0, validationErrors |-> validationErrors]
    ELSE IF decode(handlers[i].paramsType, params).isRight
    THEN [found |-> i, validationErrors |-> validationErrors]
    ELSE tryHandlers(handlers, params, i + 1,
                     pushValidationError(validationErrors,
                                         report(handlers[i].paramsType, params)))

(* the call fn(decoded.right) of the handler found *)
invokeFound(handlers, params, found) ==
    Invocation(handlers[found].fn, Undefined,
               decode(handlers[found].paramsType, params).right)

(* TypesafeRequestDispatcher.onRequest *)
dispatcherOnRequest(name, params) ==
    LET handlers == requestHandlers[name]
        tried == tryHandlers(handlers, params, 1, NoValidationErrors)
    IN  /\ ops < MaxOps
        /\ ops' = ops + 1
        /\ UNCHANGED <<requestHandlers, notificationHandlers>>
        /\ IF handlers = <<>>
           THEN /\ invoked' = <<>>
                /\ last' = Last("onRequest", name, params, 0,
                                MethodNotFound(MSG_NO_SUCH_METHOD(name), Undefined),
                                Pending)
           ELSE IF tried.found # 0
           THEN /\ invoked' = <<invokeFound(handlers, params, tried.found)>>
                /\ last' = Last("onRequest", name, params, tried.found, NoFault,
                                Resolved(ReturnOf(handlers[tried.found].fn)))
           ELSE /\ invoked' = <<>>
                /\ last' = Last("onRequest", name, params, 0,
                                InvalidParams(MSG_INVALID_PARAMS(name),
                                              ArrV(tried.validationErrors)),
                                Pending)

onNotificationNoDefault(name, params) ==
    LET handlers == notificationHandlers[name]
        tried == tryHandlers(handlers, params, 1, NoValidationErrors)
    IN  /\ ops < MaxOps
        /\ ops' = ops + 1
        /\ UNCHANGED <<requestHandlers, notificationHandlers>>
        /\ last' = Last("onNotification", name, params, tried.found, NoFault, Pending)
        /\ invoked' = IF tried.found # 0
                      THEN <<invokeFound(handlers, params, tried.found)>>
                      ELSE <<>>

(* TypesafeRequestDispatcher.onNotification *)
dispatcherOnNotification(name, params) ==
    LET handlers == notificationHandlers[name]
        tried == tryHandlers(handlers, params, 1, NoValidationErrors)
    IN  /\ ops < MaxOps
        /\ ops' = ops + 1
        /\ UNCHANGED <<requestHandlers, notificationHandlers>>
        /\ last' = Last("onNotification", name, params, tried.found, NoFault, Pending)
        /\ invoked' = IF tried.found # 0
                      THEN <<invokeFound(handlers, params, tried.found)>>
                      ELSE <<Invocation(defaultNotificationHandler, name, params)>>

(* the registrations and the dispatches of the model *)
RegisterArgs ==
    ({METHOD_FOO, METHOD_QUUX} \X ParamsTypes) \cup {<<METHOD_RPC_FOO, T_ANY>>}
DispatchArgs == {METHOD_FOO, METHOD_QUUX} \X DispatchParams

(* a dispatcher on its own: no Peer is running *)
DispatcherInit ==
    /\ ended = FALSE
    /\ pendingRequests = {}
    /\ requestIdIterator = NumericIdIterator(0)
    /\ onRequest = FALSE
    /\ onNotification = FALSE
    /\ calls = <<>>
    /\ readable = <<>>
    /\ emitted = <<>>
    /\ handling = <<>>
    /\ ops = 0
    /\ last = Last("new", Undefined, Undefined, 0, NoFault, Pending)
    /\ DispatcherNew
    /\ ProtocolIdle
    /\ JobsIdle

DispatcherOnly == UNCHANGED <<peerVars, protocolVars, jobVars>>

DispatcherNext ==
    \/ \E a \in RegisterArgs : dispatcherMethod(a[1], a[2]) /\ DispatcherOnly
    \/ \E a \in RegisterArgs : dispatcherNotification(a[1], a[2]) /\ DispatcherOnly
    \/ \E a \in DispatchArgs : dispatcherOnRequest(a[1], a[2]) /\ DispatcherOnly
    \/ \E a \in DispatchArgs : dispatcherOnNotification(a[1], a[2]) /\ DispatcherOnly

DispatcherSpec == DispatcherInit /\ [][DispatcherNext]_vars

(* ---------------------------------------------------------------------- *)
(* Properties of the dispatcher                                            *)
(* ---------------------------------------------------------------------- *)
(* the step dispatched a request or a notification *)
IsDispatch(l) == l.op \in {"onRequest", "onNotification"}
(* the handlers registered for the method of a dispatch, in registration order *)
HandlersFor(l) ==
    IF l.op = "onRequest" THEN requestHandlers[l.method] ELSE notificationHandlers[l.method]
(* the handlers among them whose type accepts the params of the dispatch *)
Accepting(l) ==
    {i \in DOMAIN HandlersFor(l) : decode(HandlersFor(l)[i].paramsType, l.params).isRight}

(* C23: a dispatch of a request or a notification for which some registered
   handler of the method accepts the params calls exactly one function: that
   of the earliest registered handler of the method that accepts them, whatever
   later handlers accept. *)
C23_FirstAcceptingHandlerOnly ==
    [][(IsDispatch(last') /\ Accepting(last') # {}) =>
          /\ Len(invoked') = 1
          /\ \E i \in Accepting(last') :
                /\ \A j \in Accepting(last') : i <= j
                /\ invoked'[1].fn = HandlersFor(last')[i].fn
          /\ last'.thrown = NoFault]_vars

(* a request dispatched to a method with two handlers that both accept the
   params: the first was called *)
C23_Witness ==
    /\ last.op = "onRequest"
    /\ Len(requestHandlers[last.method]) = 2
    /\ requestHandlers[last.method][1].paramsType = T_NUM_NUM
    /\ requestHandlers[last.method][2].paramsType = T_ANY
    /\ last.params = PARAMS_3_4
    /\ invoked = <<Invocation(requestHandlers[last.method][1].fn, Undefined, PARAMS_3_4)>>

(* the functions registered in a collection *)
FnsOf(collection) ==
    {collection[n][i].fn : <<n, i>> \in
        {x \in MethodNames \X (1..MaxOps + 1) : x[2] \in DOMAIN collection[x[1]]}}

(* C24: a request dispatched to a method without request handlers throws
   MethodNotFound (-32601) and calls no function. The two registries are
   independent: registering a notification handler leaves the request handlers
   as they were and registering a request handler the notification handlers, a
   request never calls a notification handler and a notification never a
   request handler. *)
C24_NoRequestHandlerIsMethodNotFound ==
    [][/\ (last'.op = "onRequest" /\ requestHandlers[last'.method] = <<>>) =>
             /\ last'.thrown.kind = "MethodNotFound"
             /\ last'.thrown.e.code = IntV(-32601)
             /\ invoked' = <<>>
       /\ last'.op = "notification" => requestHandlers' = requestHandlers
       /\ last'.op = "method" => notificationHandlers' = notificationHandlers
       /\ last'.op = "onRequest" =>
             \A k \in DOMAIN invoked' : invoked'[k].fn \in FnsOf(requestHandlers)
       /\ last'.op = "onNotification" =>
             \A k \in DOMAIN invoked' : invoked'[k].fn \notin FnsOf(requestHandlers)]_vars

(* a request for a method that has a notification handler accepting
   anything, and no request handler *)
C24_Witness ==
    /\ last.op = "onRequest"
    /\ last.thrown.kind = "MethodNotFound"
    /\ requestHandlers[last.method] = <<>>
    /\ Len(notificationHandlers[last.method]) = 1
    /\ notificationHandlers[last.method][1].paramsType = T_ANY
    /\ invoked = <<>>

(* the diagnostics of the first n handlers, as the digits of a number *)
RECURSIVE DiagnosticsOf(_, _, _)
DiagnosticsOf(handlers, params, n) ==
    IF n = 0 THEN 0
    ELSE DiagnosticsOf(handlers, params, n - 1) * 10
         + handlers[n].paramsType + 3 * ParamsNo(params)

(* C25: a request dispatched to a method whose handlers all reject the params
   throws InvalidParams (-32602) and calls no function; the data of the fault
   holds one diagnostic for each handler of the method, in registration
   order. *)
C25_NoAcceptingHandlerIsInvalidParams ==
    [][(/\ last'.op = "onRequest"
        /\ requestHandlers[last'.method] # <<>>
        /\ Accepting(last') = {})
       => /\ last'.thrown.kind = "InvalidParams"
          /\ last'.thrown.e.code = IntV(-32602)
          /\ last'.thrown.e.data =
                ArrV(DiagnosticsOf(requestHandlers[last'.method], last'.params,
                                   Len(requestHandlers[last'.method])))
          /\ invoked' = <<>>]_vars

(* a request with { baz: 'haha' } for a method with two handlers, for two
   numbers and for a date: two diagnostics *)
C25_Witness ==
    /\ last.op = "onRequest"
    /\ last.params = PARAMS_BAZ
    /\ Len(requestHandlers[last.method]) = 2
    /\ requestHandlers[last.method][1].paramsType = T_NUM_NUM
    /\ requestHandlers[last.method][2].paramsType = T_DATE
    /\ last.thrown = InvalidParams(MSG_INVALID_PARAMS(last.method), ArrV(89))
    /\ invoked = <<>>

(* C26: a notification dispatched to a method without notification handlers,
   or whose handlers all reject the params, calls exactly one function, the
   default notification handler, with the method and the params as they were
   received, and throws nothing. *)
C26_UnhandledNotificationGoesToDefault ==
    [][(last'.op = "onNotification" /\ Accepting(last') = {}) =>
          /\ invoked' = <<[fn |-> 0, method |-> last'.method, params |-> last'.params]>>
          /\ last'.thrown = NoFault]_vars

(* a notification with an ISO date string for a method whose two handlers
   take two numbers *)
C26_Witness ==
    /\ last.op = "onNotification"
    /\ last.params = PARAMS_ISO
    /\ Len(notificationHandlers[last.method]) = 2
    /\ \A i \in {1, 2} : notificationHandlers[last.method][i].paramsType = T_NUM_NUM
    /\ invoked = <<Invocation(defaultNotificationHandler, last.method, PARAMS_ISO)>>

(* C27: registering a request handler or a notification handler under the
   name 'rpc.foo' throws a TypeError and leaves both registries as they
   were. *)
C27_ReservedNameRejected ==
    [][(last'.op \in {"method", "notification"} /\ last'.method = StrV(3)) =>
          /\ last'.thrown.kind = "TypeError"
          /\ requestHandlers' = requestHandlers
          /\ notificationHandlers' = notificationHandlers]_vars

(* a registration under 'rpc.foo' refused by a dispatcher that holds a
   request handler and a notification handler *)
C27_Witness ==
    /\ last.op = "method"
    /\ last.method = METHOD_RPC_FOO
    /\ last.thrown = ReservedName
    /\ requestHandlers[METHOD_RPC_FOO] = <<>>
    /\ FnsOf(requestHandlers) # {}
    /\ FnsOf(notificationHandlers) # {}

(* ---------------------------------------------------------------------- *)
(* protocol.ts: the builders and parse, applied to arguments of every kind *)
(* ---------------------------------------------------------------------- *)
(* the arguments given to the builders *)
IdArgs == {Undefined, Null, IntV(1), StrV(1), FracV(1), ArrV(1), ObjV(1)}
ParamsArgs == {Undefined, ArrV(1), ObjV(1), IntV(5)}
ResultArgs == {Undefined, Null, StrV(5), FracV(2), ArrV(1)}
ErrorArgs ==
    {ErrObj(code, StrV(7), data) : code \in {IntV(3), FracV(1)},
                                   data \in {Undefined, Null, StrV(9)}}

(* the objects given to parse that no builder made *)
JSONObjects ==
    {Wire(jsonrpc, id, method, params, result, e) :
        jsonrpc \in {STR_2_0, STR_3_0},
        id \in {Undefined, Null, IntV(1), FracV(1)},
        method \in {Undefined, StrV(1)},
        params \in {Undefined, ArrV(1)},
        result \in {Undefined, Null, StrV(5)},
        e \in {NoError, RemoteError, ErrObj(FracV(1), StrV(7), Undefined)}}

Args(fn, id, method, params, result, e) ==
    [fn |-> fn, id |-> id, method |-> method, params |-> params, result |-> result, e |-> e]

(* a call of jrpc.request *)
requestCalled(id, method, params) ==
    /\ args' = Args("request", id, method, params, Undefined, NoError)
    /\ value' = request(id, method, params)
    /\ parsed' = NotParsed

(* a call of jrpc.notification *)
notificationCalled(method, params) ==
    /\ args' = Args("notification", Undefined, method, params, Undefined, NoError)
    /\ value' = notification(method, params)
    /\ parsed' = NotParsed

(* a call of jrpc.response *)
responseCalled(id, result) ==
    /\ args' = Args("response", id, Undefined, Undefined, result, NoError)
    /\ value' = response(id, result)
    /\ parsed' = NotParsed

(* a call of jrpc.error *)
errorCalled(id, e) ==
    /\ args' = Args("error", id, Undefined, Undefined, Undefined, e)
    /\ value' = error(ErrorObject(id, e))
    /\ parsed' = NotParsed

(* a call of jrpc.parse on the value at hand *)
parseCalled ==
    /\ value # Threw
    /\ parsed = NotParsed
    /\ parsed' = parse(value)
    /\ UNCHANGED <<args, value>>

(* the protocol functions on their own: no Peer and no dispatcher is running *)
ProtocolInit ==
    /\ ended = FALSE
    /\ pendingRequests = {}
    /\ requestIdIterator = NumericIdIterator(0)
    /\ onRequest = FALSE
    /\ onNotification = FALSE
    /\ calls = <<>>
    /\ readable = <<>>
    /\ emitted = <<>>
    /\ handling = <<>>
    /\ ops = 0
    /\ last = Last("new", Undefined, Undefined, 0, NoFault, Pending)
    /\ DispatcherNew
    /\ args = NoArgs
    /\ value \in JSONObjects
    /\ parsed = NotParsed
    /\ JobsIdle

ProtocolOnly == UNCHANGED <<peerVars, dispatcherVars, ops, last, jobVars>>

ProtocolNext ==
    \/ \E id \in IdArgs, params \in ParamsArgs :
          requestCalled(id, METHOD_FOO, params) /\ ProtocolOnly
    \/ \E params \in ParamsArgs : notificationCalled(METHOD_FOO, params) /\ ProtocolOnly
    \/ \E id \in IdArgs, result \in ResultArgs : responseCalled(id, result) /\ ProtocolOnly
    \/ \E id \in IdArgs, e \in ErrorArgs : errorCalled(id, e) /\ ProtocolOnly
    \/ parseCalled /\ ProtocolOnly

ProtocolSpec == ProtocolInit /\ [][ProtocolNext]_vars

(* ---------------------------------------------------------------------- *)
(* Claims about the builders and parse                                     *)
(* ---------------------------------------------------------------------- *)
(* arguments of the types the builders declare *)
ValidArgs(a) ==
    CASE a.fn = "request" ->
            RPCID(a.id) /\ a.method.t = "str" /\ (a.params = Undefined \/ RPCParams(a.params))
      [] a.fn = "notification" ->
            a.method.t = "str" /\ (a.params = Undefined \/ RPCParams(a.params))
      [] a.fn = "response" -> RPCID(a.id) /\ (a.result = Undefined \/ Some(a.result))
      [] a.fn = "error" -> (a.id \in {Undefined, Null} \/ RPCID(a.id)) /\ RPCErrorType(a.e)
      [] OTHER -> FALSE

(* the message that carries the arguments as they were given *)
MessageOfArgs(a) == Message(a.fn, a.id, a.method, a.params, a.result, a.e)

(* the arguments with an omitted result and an omitted Error id read as null *)
Defaulted(a) ==
    [a EXCEPT !.result = IF a.fn = "response" /\ a.result = Undefined THEN Null ELSE @,
              !.id = IF a.fn = "error" /\ a.id = Undefined THEN Null ELSE @]

(* C28, as claimed: parse of a value built from valid arguments returns a
   message of the builder's kind carrying exactly the id, method, params,
   result and error that were given to the builder. *)
C28_Claimed ==
    (parsed # NotParsed /\ ValidArgs(args)) => parsed = MessageOfArgs(args)

(* C28: parse of a value built from valid arguments returns a message of the
   builder's kind carrying the id, method, params, result and error that were
   given to the builder, except that an omitted result of a Response and an
   omitted id of an Error come back as null. *)
C28_RoundTripUpToDefaults ==
    (parsed # NotParsed /\ ValidArgs(args)) =>
        /\ value # Threw
        /\ parsed = MessageOfArgs(Defaulted(args))

C28_Witness ==
    /\ args.fn = "response"
    /\ args.id = IntV(1)
    /\ args.result = Undefined
    /\ parsed.kind = "response"
    /\ parsed.result = Null

Shapes == {"request", "notification", "response", "error"}
Matches(kind, o) ==
    CASE kind = "request" -> RequestJSON(o)
      [] kind = "notification" -> NotificationJSON(o)
      [] kind = "response" -> ResponseJSON(o)
      [] kind = "error" -> ErrorJSON(o)

(* a Request or Notification with result or error; a Response with error,
   method or params *)
CarriesForeignField(o) ==
    \/ o.method # Undefined /\ (o.result # Undefined \/ o.error # NoError)
    \/ o.result # Undefined /\ (o.error # NoError \/ o.method # Undefined \/ o.params # Undefined)

(* C29: every value matches at most one of the four shapes; parse returns the
   kind of the shape the value matches and throws when it matches none; a
   value that has method together with result or error, or result together
   with error, method or params, makes parse throw. *)
C29_ShapesExclusive ==
    /\ Cardinality({kind \in Shapes : Matches(kind, value)}) <= 1
    /\ parsed # NotParsed =>
          /\ \A kind \in Shapes : Matches(kind, value) => parsed.kind = kind
          /\ (\A kind \in Shapes : ~Matches(kind, value)) => parsed.kind = "throw"
          /\ CarriesForeignField(value) => parsed.kind = "throw"

C29_Witness ==
    /\ args.fn = "none"
    /\ value.jsonrpc = STR_2_0
    /\ value.id = IntV(1)
    /\ value.method = StrV(1)
    /\ value.result = StrV(5)
    /\ value.error = NoError
    /\ parsed.kind = "throw"

(* C30: request, response and error throw, and so return no value, when the id
   is a fractional number, an array or an object; error given an integer code
   and an absent or null id returns a value whose id is null. *)
C30_BadIdThrows ==
    /\ (args.fn \in {"request", "response", "error"}
          /\ args.id.t \in {"frac", "array", "object"}) => value = Threw
    /\ (args.fn = "error" /\ args.id \in {Undefined, Null} /\ Integer(args.e.code)) =>
          value # Threw /\ value.id = Null

C30_Witness ==
    /\ args.fn = "response"
    /\ args.id = FracV(1)
    /\ args.result = StrV(5)
    /\ value = Threw

(* ---------------------------------------------------------------------- *)
(* peer.ts: NumericIdIterator on its own, from every valid initial value   *)
(* ---------------------------------------------------------------------- *)
(* the constructor accepts the integers of the safe range *)
InitialValues == MIN_SAFE_INTEGER .. MAX_SAFE_INTEGER

(* one more pull than the safe range has integers *)
MaxPulls == MAX_SAFE_INTEGER - MIN_SAFE_INTEGER + 2

(* a call of requestIdIterator.next() *)
pull ==
    LET idResult == next(requestIdIterator)
    IN  /\ Len(pulled) < MaxPulls
        /\ requestIdIterator' = idResult.it
        /\ pulled' = Append(pulled, [value |-> idResult.value, done |-> idResult.done])

IteratorInit ==
    /\ ended = FALSE
    /\ pendingRequests = {}
    /\ \E initialValue \in InitialValues : requestIdIterator = NumericIdIterator(initialValue)
    /\ onRequest = FALSE
    /\ onNotification = FALSE
    /\ calls = <<>>
    /\ readable = <<>>
    /\ emitted = <<>>
    /\ handling = <<>>
    /\ ops = 0
    /\ last = Last("new", Undefined, Undefined, 0, NoFault, Pending)
    /\ DispatcherNew
    /\ ProtocolIdle
    /\ JobsIdle

IteratorOnly ==
    UNCHANGED <<ended, pendingRequests, onRequest, onNotification, calls, readable,
                emitted, handling, ops, last, dispatcherVars, protocolVars, microtasks>>

IteratorNext == pull /\ IteratorOnly

IteratorSpec == IteratorInit /\ [][IteratorNext]_vars

(* C31: every pull of the default id generator reports a value and never
   exhaustion; the pull after one that returned MAX_SAFE_INTEGER returns
   MIN_SAFE_INTEGER, and the pull after any other value returns that value
   plus 1. *)
C31_WrapsAtMaxSafeInteger ==
    /\ \A i \in DOMAIN pulled : ~pulled[i].done /\ Integer(pulled[i].value)
    /\ \A i \in DOMAIN pulled :
          i + 1 \in DOMAIN pulled =>
              pulled[i + 1].value.v = IF pulled[i].value.v = MAX_SAFE_INTEGER
                                      THEN MIN_SAFE_INTEGER
                                      ELSE pulled[i].value.v + 1

(* the generator started just below the maximum and was pulled four times *)
C31_Witness ==
    /\ Len(pulled) = 4
    /\ pulled[1].value = IntV(MAX_SAFE_INTEGER - 1)
    /\ pulled[2].value = IntV(MAX_SAFE_INTEGER)
    /\ pulled[3].value = IntV(MIN_SAFE_INTEGER)
    /\ pulled[4].value = IntV(MIN_SAFE_INTEGER + 1)

(* the number of integers from the value pulled first up to the wraparound *)
UpToWraparound == MAX_SAFE_INTEGER - pulled[1].value.v + 1

(* C32: the values of N pulls are pairwise distinct when N is at most the
   number of integers from the value pulled first up to MAX_SAFE_INTEGER. *)
C32_DistinctUpToWraparound ==
    (pulled # <<>> /\ Len(pulled) <= UpToWraparound) =>
        \A i, j \in DOMAIN pulled : i # j => pulled[i].value # pulled[j].value

(* the generator started at 3 below the maximum and was pulled up to it *)
C32_Witness ==
    /\ Len(pulled) = 4
    /\ Len(pulled) = UpToWraparound
    /\ pulled[4].value = IntV(MAX_SAFE_INTEGER)

(* ---------------------------------------------------------------------- *)
(* peer.ts: the Peer on a transport that answers within push, and that     *)
(* signals the end more than once                                          *)
(* ---------------------------------------------------------------------- *)
(* the Response or Error the remote peer sends for the Request with this id *)
AnswerKinds == {"response", "error"}
AnswerTo(id, kind) ==
    IF kind = "response"
    THEN response(id, StrV(5))
    ELSE error(ErrorObject(id, RemoteError))

(* callMethod on an open Peer whose readable side is flowing into a transport
   that hands the answer to the writable side at once: this.push(request)
   emits 'data', the transport writes the Response or Error, _write runs
   handleResponse or handleError, which find no entry yet and throw, and only
   then pendingRequests.set is reached *)
callMethodAnsweredInPush(method, params, timeout, kind) ==
    LET idResult == next(requestIdIterator)
        id == idResult.value
        message == parse(AnswerTo(id, kind))
    IN  /\ ~ended
        /\ ops + 1 < MaxOps
        /\ ~idResult.done
        /\ ~Has(pendingRequests, id)
        /\ request(id, method, params) # Threw
        /\ ops' = ops + 2
        /\ requestIdIterator' = idResult.it
        /\ readable' = push(readable, request(id, method, params))
        /\ emitted' = Append(emitted, Event("error", UnexpectedResponse(id, message.kind)))
        /\ pendingRequests' = Set(pendingRequests, id, method, Len(calls) + 1)
        /\ calls' = Append(calls,
                        [Call(id, method, params, IF timeout THEN "armed" ELSE "none",
                              Pending)
                            EXCEPT !.answered = TRUE])
        /\ last' = Last("callMethodAnsweredInPush", method, params, Len(calls) + 1,
                        UnexpectedResponse(id, message.kind), Pending)
        /\ UNCHANGED <<ended, onRequest, onNotification, handling>>

finishAgainRunsListener ==
    /\ ended
    /\ ended' = FALSE
    /\ last' = Last("finish", Undefined, Undefined, 0, NoFault, Pending)
    /\ UNCHANGED <<pendingRequests, requestIdIterator, onRequest, onNotification,
                   calls, readable, emitted, handling, ops>>

(* a 'finish' event after the first: the listener was attached with once and
   is gone, so nothing runs *)
finishAgain ==
    /\ ended
    /\ last' = Last("finish", Undefined, Undefined, 0, NoFault, Pending)
    /\ UNCHANGED <<ended, pendingRequests, requestIdIterator, onRequest, onNotification,
                   calls, readable, emitted, handling, ops>>

LoopbackNext ==
    \/ Next
    \/ \E a \in CallArgs, kind \in AnswerKinds :
          callMethodAnsweredInPush(a[1], a[2], a[3], kind) /\ Idle
    \/ finishAgain /\ Idle

LoopbackSpec == Init /\ [][LoopbackNext]_vars

(* ---------------------------------------------------------------------- *)
(* peer.ts: handleRequest at the grain of promise jobs, for a request      *)
(* handler that returns a value or throws                                  *)
(* ---------------------------------------------------------------------- *)
(* a reaction job: the callback given to then, or the one given to catch, of
   the promise handleRequest made for the request with this id *)
Job(id, o, callback) == [id |-> id, o |-> o, callback |-> callback]

(* the remote peer numbers its requests in the order it sends them *)
NextRequestId == IntV(ops + 1)

(* Peer.handleRequest: the handler returns a value or throws; the promise is
   settled already, so the reaction of promise.then(...) is queued at once *)
handleRequestJob(o) ==
    /\ ~ended
    /\ onRequest
    /\ ops < MaxOps
    /\ ops' = ops + 1
    /\ microtasks' = Append(microtasks, Job(NextRequestId, o, "then"))
    /\ last' = Last("handleRequest", Undefined, Undefined, ops + 1, NoFault, o)
    /\ UNCHANGED <<readable, emitted>>

runLatestMicrotask ==
    LET job == microtasks[Len(microtasks)]
        rest == SubSeq(microtasks, 1, Len(microtasks) - 1)
    IN  /\ microtasks # <<>>
        /\ last' = Last("microtask", Undefined, Undefined, job.id.v, NoFault, job.o)
        /\ UNCHANGED ops
        /\ IF job.callback = "then" /\ job.o.state = "resolved"
           THEN /\ readable' = push(readable, response(job.id, job.o.value))
                /\ microtasks' = rest
                /\ UNCHANGED emitted
           ELSE IF job.callback = "then"
           THEN /\ microtasks' = Append(rest, Job(job.id, job.o, "catch"))
                /\ UNCHANGED <<readable, emitted>>
           ELSE /\ readable' = respondReadable(readable, job.id, job.o)
                /\ emitted' = respondEmitted(emitted, job.o)
                /\ microtasks' = rest

(* the oldest job runs: (value) => this.push(jrpc.response(request.id, value))
   for a fulfilled promise; for a rejected one then has no rejection callback,
   so the promise it returned is rejected and the reaction of catch(...) is
   queued behind the jobs already there *)
runMicrotask ==
    LET job == Head(microtasks)
        rest == Tail(microtasks)
    IN  /\ microtasks # <<>>
        /\ last' = Last("microtask", Undefined, Undefined, job.id.v, NoFault, job.o)
        /\ UNCHANGED ops
        /\ IF job.callback = "then" /\ job.o.state = "resolved"
           THEN /\ readable' = push(readable, response(job.id, job.o.value))
                /\ microtasks' = rest
                /\ UNCHANGED emitted
           ELSE IF job.callback = "then"
           THEN /\ microtasks' = Append(rest, Job(job.id, job.o, "catch"))
                /\ UNCHANGED <<readable, emitted>>
           ELSE /\ readable' = respondReadable(readable, job.id, job.o)
                /\ emitted' = respondEmitted(emitted, job.o)
                /\ microtasks' = rest

MicrotaskInit ==
    /\ ended = FALSE
    /\ pendingRequests = {}
    /\ requestIdIterator = NumericIdIterator(0)
    /\ onRequest = TRUE
    /\ onNotification = TRUE
    /\ calls = <<>>
    /\ readable = <<>>
    /\ emitted = <<>>
    /\ handling = <<>>
    /\ ops = 0
    /\ last = Last("new", Undefined, Undefined, 0, NoFault, Pending)
    /\ DispatcherNew
    /\ ProtocolIdle
    /\ JobsIdle

MicrotaskOnly ==
    UNCHANGED <<ended, pendingRequests, requestIdIterator, onRequest, onNotification,
                calls, handling, dispatcherVars, protocolVars, pulled>>

MicrotaskNext ==
    \/ \E o \in HandlerOutcomes : handleRequestJob(o) /\ MicrotaskOnly
    \/ runMicrotask /\ MicrotaskOnly

MicrotaskSpec == MicrotaskInit /\ [][MicrotaskNext]_vars

(* ---------------------------------------------------------------------- *)
(* new Peer(dispatcher): the Peer with the dispatcher's onRequest attached *)
(* ---------------------------------------------------------------------- *)
(* the ids of the Requests the remote peer sends *)
InboundIds == {IntV(5), IntV(6)}

onRequestOutcomePlainFaults(name, params) ==
    LET handlers == requestHandlers[name]
        tried == tryHandlers(handlers, params, 1, NoValidationErrors)
    IN  IF handlers # <<>> /\ tried.found # 0
        THEN Resolved(ReturnOf(handlers[tried.found].fn))
        ELSE Rejected(HandlerError)

(* what this.onRequest.call(undefined, method, params) comes to when onRequest
   is the dispatcher's: the value the handler found returns, or the fault
   thrown *)
onRequestOutcome(name, params) ==
    LET handlers == requestHandlers[name]
        tried == tryHandlers(handlers, params, 1, NoValidationErrors)
    IN  IF handlers = <<>>
        THEN Rejected(MethodNotFound(MSG_NO_SUCH_METHOD(name), Undefined))
        ELSE IF tried.found # 0
        THEN Resolved(ReturnOf(handlers[tried.found].fn))
        ELSE Rejected(InvalidParams(MSG_INVALID_PARAMS(name),
                                    ArrV(tried.validationErrors)))

(* Peer._write of a Request, handled by the dispatcher *)
_writeDispatched(id, name, params) ==
    LET message == parse(request(id, name, params))
        handlers == requestHandlers[message.method]
        tried == tryHandlers(handlers, message.params, 1, NoValidationErrors)
        o == onRequestOutcome(message.method, message.params)
    IN  /\ ~ended
        /\ ops < MaxOps
        /\ message.kind = "request"
        /\ onRequest
        /\ ops' = ops + 1
        /\ invoked' = IF handlers # <<>> /\ tried.found # 0
                      THEN <<invokeFound(handlers, message.params, tried.found)>>
                      ELSE <<>>
        /\ readable' = respondReadable(readable, message.id, o)
        /\ emitted' = respondEmitted(emitted, o)
        /\ last' = Last("_write", message.method, message.params, message.id.v, NoFault, o)
        /\ UNCHANGED <<ended, pendingRequests, requestIdIterator, onRequest, onNotification,
                       calls, handling, requestHandlers, notificationHandlers,
                       protocolVars, jobVars>>

IntegrationInit ==
    /\ ended = FALSE
    /\ pendingRequests = {}
    /\ requestIdIterator = NumericIdIterator(0)
    /\ onRequest = TRUE
    /\ onNotification = TRUE
    /\ calls = <<>>
    /\ readable = <<>>
    /\ emitted = <<>>
    /\ handling = <<>>
    /\ ops = 0
    /\ last = Last("new", Undefined, Undefined, 0, NoFault, Pending)
    /\ DispatcherNew
    /\ ProtocolIdle
    /\ JobsIdle

IntegrationNext ==
    \/ \E a \in RegisterArgs : dispatcherMethod(a[1], a[2]) /\ DispatcherOnly
    \/ \E a \in RegisterArgs : dispatcherNotification(a[1], a[2]) /\ DispatcherOnly
    \/ \E id \in InboundIds, a \in DispatchArgs : _writeDispatched(id, a[1], a[2])

IntegrationSpec == IntegrationInit /\ [][IntegrationNext]_vars

(* ---------------------------------------------------------------------- *)
(* Further properties of the Peer                                          *)
(* ---------------------------------------------------------------------- *)
(* C33, as claimed: the pending-call mapping holds exactly the ids of the
   calls whose promise is still pending; in particular it holds no entry for a
   call whose timer has fired. *)
C33_Claimed ==
    {e.id : e \in pendingRequests} =
        {calls[k].id : k \in {j \in DOMAIN calls : ~Settled(calls[j])}}

(* C34: ended never goes back from TRUE to FALSE, and a 'finish' event on an
   ended Peer throws nothing and changes no call, no pending entry, nothing
   pushed and nothing emitted. *)
C34_ClosedForGood ==
    [][/\ ended => ended'
       /\ last'.op = "finish" =>
             /\ last'.thrown = NoFault
             /\ UNCHANGED <<calls, pendingRequests, readable, emitted>>]_vars

(* an outstanding call was rejected by the end of the stream, and a second
   'finish' came afterwards *)
C34_Witness ==
    /\ ended
    /\ last.op = "finish"
    /\ Len(calls) >= 1
    /\ calls[1].id # Undefined
    /\ calls[1].outcome = Rejected(RPCStreamClosed(calls[1].method))

(* C35: with a request handler that returns values or throws synchronously,
   the Responses pushed are in the order in which their Requests were
   received: of two Responses, the one pushed first answers the Request
   received first. *)
C35_ResponsesInRequestOrder ==
    \A i, j \in DOMAIN readable :
        (i < j /\ parse(readable[i]).kind = "response"
               /\ parse(readable[j]).kind = "response") =>
            readable[i].id.v < readable[j].id.v

(* three Requests received in one go; the handler threw for the first and
   returned values for the others: their Responses went out in order, the Error
   for the first after them *)
C35_Witness ==
    /\ Len(readable) = 3
    /\ readable[1] = response(IntV(2), StrV(5))
    /\ readable[2] = response(IntV(3), Undefined)
    /\ parse(readable[3]).kind = "error"
    /\ readable[3].id = IntV(1)

(* the request handler of this step completed, at once or through its promise *)
HandlerCompleted(l) == l.op \in {"_write", "handlerSettles"} /\ l.o.state # "pending"

(* C36, as claimed: when the handler of a Request completes, with any value or
   any fault, the Peer pushes exactly one value, a Response or an Error message
   that carries the Request's id. *)
C36_Claimed ==
    [][HandlerCompleted(last') =>
          /\ Len(readable') = Len(readable) + 1
          /\ SubSeq(readable', 1, Len(readable)) = readable
          /\ parse(readable'[Len(readable')]).kind \in {"response", "error"}
          /\ readable'[Len(readable')].id = RequestIdOf(last')]_vars

(* C37, as claimed: no step reports a Response or Error as an
   UnexpectedResponse when it carries the id of a call whose Request has been
   pushed and whose promise was pending when the message was received, the
   call made in this very step included. *)
C37_Claimed ==
    [][\A k \in DOMAIN calls' :
          (/\ Len(emitted') = Len(emitted) + 1
           /\ emitted'[Len(emitted')].fault.kind = "UnexpectedResponse"
           /\ emitted'[Len(emitted')].fault.id = calls'[k].id)
          => (k \in DOMAIN calls /\ Settled(calls[k]))]_vars

(* C38, as claimed: callMethod throws the id-collision fault only when an
   earlier call made with the id just pulled is still pending; once that call
   has completed, by a Response, an Error or its timeout, the id is accepted
   again. *)
C38_Claimed ==
    [][(last'.op = "callMethod" /\ last'.thrown = IdAlreadyUsed) =>
          \E k \in DOMAIN calls :
              /\ calls[k].id = next(requestIdIterator).value
              /\ ~Settled(calls[k])]_vars

(* C39: whenever the Peer is ended, the pending-call mapping is empty. *)
C39_ClosedHasNoPendingEntry == ended => pendingRequests = {}

(* the stream ended with a call outstanding, and a call was made afterwards *)
C39_Witness ==
    /\ ended
    /\ pendingRequests = {}
    /\ Len(calls) = 2
    /\ calls[1].id # Undefined
    /\ calls[1].outcome = Rejected(RPCStreamClosed(calls[1].method))
    /\ last.op = "callMethod"
    /\ last.n = 2

(* the Peer received a Request and handed it to the dispatcher *)
Dispatched(l) == l.op = "_write" /\ l.o.state # "pending"
(* some request handler registered for the method accepts the params *)
SomeOverloadAccepts(l) ==
    \E i \in DOMAIN requestHandlers[l.method] :
        decode(requestHandlers[l.method][i].paramsType, l.params).isRight

(* C40: a Peer whose request handler is the dispatcher's answers a Request for
   a method with no registered request handler with exactly one value, an Error
   message with the Request's id and code -32601, and a Request whose params no
   registered handler of the method accepts with an Error message with the
   Request's id and code -32602; in both cases it emits no event and calls no
   handler function. *)
C40_DispatcherFaultsBecomeErrors ==
    [][(Dispatched(last') /\ ~SomeOverloadAccepts(last')) =>
          /\ Len(readable') = Len(readable) + 1
          /\ SubSeq(readable', 1, Len(readable)) = readable
          /\ parse(readable'[Len(readable')]).kind = "error"
          /\ readable'[Len(readable')].id = IntV(last'.n)
          /\ readable'[Len(readable')].error.code =
                IF requestHandlers[last'.method] = <<>> THEN IntV(-32601) ELSE IntV(-32602)
          /\ emitted' = emitted
          /\ invoked' = <<>>]_vars

(* a method without a request handler was requested, a request handler was
   registered, and then params it refuses were sent *)
C40_Witness ==
    /\ Len(readable) = 2
    /\ readable[1].error.code = METHOD_NOT_FOUND
    /\ readable[2].error.code = INVALID_PARAMS
    /\ readable[2].id = IntV(last.n)
    /\ Len(requestHandlers[last.method]) >= 1
    /\ emitted = <<>>

====
